---- MODULE Spec2Model ----
(***************************************************************************)
(* A state-machine model of the Demikernel core:                           *)
(*   - the TCP passive-open socket (inetstack/protocols/tcp/passive_open), *)
(*   - the Catmem memory queue (catmem/queue.rs) on top of a shared ring,  *)
(*   - the Catcollar libOS (catcollar/mod.rs) behind NetworkLibOS,         *)
(*   - the memory runtime of Catnap and the pop future of Catcollar.       *)
(* Each subsystem has its own specification; the variables of the other    *)
(* subsystem stay unchanged under it.                                      *)
(***************************************************************************)
EXTENDS Integers, Sequences, FiniteSets, TLC

VARIABLES
    \* ---- PassiveSocket (passive_open.rs:119-131) ----
    inflight,      \* HashMap<SocketAddrV4, InflightAccept>
    ready,         \* ReadySockets.ready: VecDeque<Result<ControlBlock, Fail>>
    endpoints,     \* ReadySockets.endpoints: HashSet<SocketAddrV4>
    waker,         \* ReadySockets.waker: Option<Waker>
    max_backlog,   \* PassiveSocket.max_backlog
    tasks,         \* background coroutines, by task handle
    accept_pc,     \* the accept coroutine that calls poll_accept
    call,          \* the last operation on the socket and what it returned
    panic,         \* "none", or the assert!/expect that aborted the process
    \* ---- CatmemQueue (catmem/queue.rs:47-50), one per end of a ring ----
    ring,          \* the shared ring buffer: the items written and not yet read
    state,         \* per endpoint: the state machine of its Ring
    pending_ops,   \* per endpoint: CatmemQueue.pending_ops
    ops,           \* the coroutines of push and pop, by task handle
    running,       \* per endpoint: the coroutine its scheduler is polling
    next_byte,     \* the value of the next byte that a push submits
    hist,          \* history: bytes pushed, bytes popped, EOF seen
    qcall,         \* the last primitive or call on a queue and what it returned
    closer,        \* per endpoint: the coroutine of do_async_close
    limits,        \* what the schedulers admit and the producer has to send
    \* ---- CatcollarLibOS (catcollar/mod.rs:87-92) ----
    qtable,        \* CatcollarLibOS.qtable: the socket queue of each descriptor
    cctasks,       \* runtime.scheduler: the operation tasks, by task id
    ccall,         \* the last libOS call and what it returned
    \* ---- PosixRuntime as MemoryRuntime (catnap/runtime.rs:90-161) ----
    heap,          \* the heap buffers: free, owned by a DataBuffer, or handed out raw
    sgas,          \* the scatter-gather arrays that the application holds
    mcall,         \* the last call on the memory runtime and what it returned
    \* ---- PopFuture (catcollar/futures/pop.rs:34-43) ----
    popfut         \* the future of a pop, its request and what its last poll returned

povars == <<inflight, ready, endpoints, waker, max_backlog, tasks, accept_pc, call, panic>>

cmvars == <<ring, state, pending_ops, ops, running, next_byte, hist, qcall, closer, limits>>

ccvars == <<qtable, cctasks, ccall>>

mrvars == <<heap, sgas, mcall>>

pfvars == <<popfut>>

vars == <<povars, cmvars, ccvars, mrvars, pfvars>>

-----------------------------------------------------------------------------
\* Bounds of the model.

\* Remote endpoints 1..NumRemotes.
NumRemotes == 3

\* Background coroutines the scheduler admits before it refuses insertion.
MaxTasks == 2

\* max_backlog is drawn from 1..MaxBacklog at construction.
MaxBacklog == 2

\* Bits of a sequence number that the model keeps.
SeqBits == 16

\* Items that the shared ring holds.
RingCapacity == 1

\* A push submits a buffer of 0..MaxBufLen bytes.
MaxBufLen == 2

\* Bytes that all pushes of a run submit together.
MaxBytes == 2

\* A pop asks for 1..MaxPopSize bytes.
MaxPopSize == 2

\* Coroutines of push and pop that exist at a time.
MaxOps == 1
\* The same, and the bytes of all pushes, where two pushes share the push end.
MaxPushOps == 2
MaxPushBytes == 3
\* The number of times do_async_close tries to write the end-of-file marker.
MAX_RETRIES_PUSH_EOF == 2
\* The descriptors that the queue table can issue.
MaxQueues == 2
\* The tasks that the scheduler of the libOS admits before it is exhausted.
MaxCcTasks == 1
\* Socket addresses are told apart by their port: 0 is the wildcard port.
MaxPort == 2
\* The longest buffer that a push submits.
MaxSgaLen == 1
\* The limit of the listen backlog, and the largest backlog a caller asks for.
SOMAXCONN == 3
MaxBacklogArg == 5
\* The heap buffers that exist at a time.
MaxBufs == 2

\* Longest receive buffer of a pop future.
MaxRecvLen == 2

-----------------------------------------------------------------------------
\* Values.

Remotes == 1..NumRemotes

TaskIds == 1..MaxTasks

\* SeqNumber is an unsigned value with wrapping addition. TLC's integers are
\* 32-bit signed, so the model keeps SeqBits bits of the 32; the wrap-around of
\* x + 1 at the largest value is kept.
SeqModulus == 2^SeqBits

SeqAdd(a, b) == (a + b) % SeqModulus

None == [some |-> FALSE]

Some(v) == [some |-> TRUE, val |-> v]

\* tcp_config.get_handshake_retries()
HandshakeRetries == 2

\* tcp_config.get_window_scale(), get_receive_window_size(), get_advertised_mss()
ConfigWindowScale == 2

ConfigReceiveWindowSize == 65535

ConfigAdvertisedMss == 1450

\* constants::FALLBACK_MSS
FALLBACK_MSS == 536

\* The ISN generator maps (local, remote) to a 32-bit number; the model fixes
\* one such map that includes the largest value, so that local_isn + 1 wraps.
isn_generate(remote) == IF remote = 1 THEN SeqModulus - 1 ELSE 7

\* u16::checked_shl(rhs): None when rhs >= 16, else the low 16 bits of x << rhs.
checked_shl_u16(x, rhs) == IF rhs >= 16 THEN None ELSE Some((x * 2^rhs) % 2^16)

\* u32::checked_shl(rhs): None when rhs >= 32, else the low 32 bits of x << rhs.
\* The operand is a u16 widened to u32, so no bit is lost for rhs <= 16.
checked_shl_u32(x, rhs) == IF rhs >= 32 THEN None ELSE Some(x * 2^rhs)

-----------------------------------------------------------------------------
\* Inbound segments: the fields of TcpHeader that receive reads.

NoOptions == [window_scale |-> None, mss |-> None]

Header(syn, ack, rst, ack_num) ==
    [syn |-> syn, ack |-> ack, rst |-> rst, seq_num |-> 0, ack_num |-> ack_num,
     window_size |-> 0, options |-> NoOptions]

\* Segments that are not a valid SYN, one for each way line 253 rejects a
\* segment: an ACK (whose ack_num is the right one for some remote or a wrong
\* one), a SYN+RST, no flag at all.
FlagHeaders ==
    { Header(FALSE, TRUE, FALSE, 0), Header(FALSE, TRUE, FALSE, 8),
      Header(TRUE, FALSE, TRUE, 0), Header(FALSE, FALSE, FALSE, 0) }

\* The valid SYN of each remote: a remote host sends (and retransmits) one SYN.
\* One host starts at the largest sequence number and sends no option, one
\* sends a window scale and an MSS, one sends a window scale of 16.
Syn(remote) ==
    [syn |-> TRUE, ack |-> FALSE, rst |-> FALSE,
     seq_num |-> IF remote % 3 = 1 THEN SeqModulus - 1 ELSE 1000,
     ack_num |-> 0,
     window_size |-> 40000,
     options |-> [window_scale |-> IF remote % 3 = 1 THEN None
                                   ELSE IF remote % 3 = 2 THEN Some(1) ELSE Some(16),
                  mss |-> IF remote % 3 = 2 THEN Some(1460) ELSE None]]

\* The segments that a remote may send.
Headers(remote) == FlagHeaders \cup {Syn(remote)}

NoEntry == [ok |-> FALSE, errno |-> "none"]

NoSegment == [remote |-> 0, syn |-> FALSE, ack |-> FALSE, seq_num |-> 0, ack_num |-> 0,
              window_size |-> 0, options |-> NoOptions]

\* remote: whose segment receive handled; entry: what poll_accept handed over;
\* segment: what background transmitted.
NoCall == [op |-> "none", remote |-> 0, result |-> "none", entry |-> NoEntry, segment |-> NoSegment]

FreeTask == [status |-> "free", remote |-> 0, remote_isn |-> 0, local_isn |-> 0,
             iter |-> 0, pc |-> "none"]

-----------------------------------------------------------------------------
\* The two ends of a memory ring: Ring::PushOnly and Ring::PopOnly, each held
\* by its own CatmemQueue and driven by its own scheduler.

Sides == {"PushOnly", "PopOnly"}

OpIds == 1..(IF MaxPushOps > MaxOps THEN MaxPushOps ELSE MaxOps)

\* An item of the ring: a data byte, or the end-of-file marker.
Data(byte) == [eof |-> FALSE, byte |-> byte]

Eof == [eof |-> TRUE, byte |-> 0]

\* A coroutine of do_push or do_pop: its position, its arguments and locals,
\* the slot of its Yielder (wake) and its result.  cancelled records that
\* cancel_pending_ops found it pending.
FreeOp == [status |-> "free", kind |-> "none", buf |-> << >>, index |-> 0, size |-> 0,
           wake |-> "none", result |-> "none", eof |-> FALSE, cancelled |-> FALSE]

\* No do_async_close coroutine was spawned.
NoCloser == [status |-> "free", retries |-> 0, result |-> "none", task_id |-> 0, qt |-> 0]

\* The task id the scheduler gives to the coroutine of do_async_close: the
\* slot after those of the data-path operations.
CloserTaskId == (IF MaxPushOps > MaxOps THEN MaxPushOps ELSE MaxOps) + 1

NoQCall == [op |-> "none", side |-> "none", byte |-> None, eof |-> FALSE, result |-> "none"]

\* The coroutines that the scheduler of each end admits at a time and the
\* bytes that the pushes of a run submit together.
CatmemLimits == [ops |-> [s \in Sides |-> MaxOps], bytes |-> MaxBytes]

\* Two pushes at a time on the push end, one pop at a time on the pop end.
PushOrderLimits ==
    [ops |-> [s \in Sides |-> IF s = "PushOnly" THEN MaxPushOps ELSE MaxOps],
     bytes |-> MaxPushBytes]

\* CatmemQueue::create / CatmemQueue::open for both ends of one ring.
RingInit(lim) ==
    /\ limits = lim
    /\ ring = << >>
    /\ state = [s \in Sides |-> [current |-> "Opened", prepared |-> "none"]]
    /\ pending_ops = [s \in Sides |-> {}]
    /\ ops = [s \in Sides |-> [t \in OpIds |-> FreeOp]]
    /\ running = [s \in Sides |-> 0]
    /\ next_byte = 1
    /\ hist = [sent |-> << >>, received |-> << >>, eof |-> FALSE, try_eof |-> FALSE,
               closed |-> FALSE, clean |-> FALSE, sent_at_close |-> << >>,
               contended |-> FALSE]
    /\ qcall = NoQCall
    /\ closer = [s \in Sides |-> NoCloser]

CatmemInit == RingInit(CatmemLimits)

\* Values of the Catcollar libOS.
QDescs == 1..MaxQueues

CcTaskIds == 1..MaxCcTasks

\* SocketAddrV4, reduced to its port.
SocketAddrs == 0..MaxPort

port(addr) == addr

\* The errnos of the libOS, and two that the operating system reports for a
\* failed system call and a failed I/O operation.
EBADF == 9
EAGAIN == 11
EACCES == 13
EINVAL == 22
ENOTSUP == 95
EADDRINUSE == 98
ECONNRESET == 104

\* CatcollarQueue: no queue under a descriptor, and a queue with its address.
\* Every queue is given a file descriptor when it is created, and the queue
\* type is never read.
\* bound is not a field of the code: it keeps whether bind set the address.
NoQueue == [live |-> FALSE, addr |-> None, bound |-> FALSE]

CatcollarQueue(addr) == [live |-> TRUE, addr |-> addr, bound |-> FALSE]

\* OperationResult
NoResult == [tag |-> "none", errno |-> 0, new_qd |-> 0, addr |-> None]

OperationResult(tag) == [NoResult EXCEPT !.tag = tag]

Failed(errno) == [NoResult EXCEPT !.tag = "Failed", !.errno = errno]

\* OperationTask: a free slot of the scheduler.
NoTask == [status |-> "free", kind |-> "none", qd |-> 0, wake |-> 0, result |-> NoResult]

\* demi_qresult_t
NoQResult == [qr_opcode |-> "none", qr_qd |-> 0, qr_qt |-> 0, qr_ret |-> 0]

NoCCall == [op |-> "none", qd |-> 0, ret |-> 0, qt |-> 0, os |-> FALSE, arg |-> 0, backlog |-> 0,
            panic |-> FALSE, qr |-> NoQResult]

\* CatcollarLibOS::new
CatcollarInit ==
    /\ qtable = [qd \in QDescs |-> NoQueue]
    /\ cctasks = [t \in CcTaskIds |-> NoTask]
    /\ ccall = NoCCall

\* Values of the memory runtime.
BufIds == 1..MaxBufs

\* The longest Buffer.
BufferLenMax == 65535

\* The sizes that a caller asks alloc_sgarray for.
Sizes == {0, 1, 2, BufferLenMax, BufferLenMax + 1}

\* x as u32, computed on the two 16-bit halves of x.
as_u32(x) == (x % 65536) + 65536 * ((x \div 65536) % 65536)

NoBuffer == [status |-> "free", len |-> 0]

\* dmtr_sgaseg_t and dmtr_sgarray_t
dmtr_sgaseg_t(buf, len) == [sgaseg_buf |-> buf, sgaseg_len |-> len]

dmtr_sgarray_t(numsegs, seg) == [sga_numsegs |-> numsegs, sga_segs |-> <<seg>>]

NoSga == dmtr_sgarray_t(0, dmtr_sgaseg_t(0, 0))

\* ret: 0 for Ok, the errno otherwise; sga, dbuf: what the call returned;
\* reclaimed, read: the heap buffers that the call reclaimed and read.
NoMCall == [op |-> "none", ret |-> 0, sga |-> NoSga, dbuf |-> 0, reclaimed |-> {}, read |-> {}]

\* PosixRuntime::new
MemoryInit ==
    /\ heap = [b \in BufIds |-> NoBuffer]
    /\ sgas = {}
    /\ mcall = NoMCall

\* Values of the pop future. The bytes that a receive buffer may hold.
RecvBytes == {1, 2}

RECURSIVE SeqsOf(_, _)
SeqsOf(S, n) ==
    IF n = 0 THEN {<< >>}
    ELSE {Append(q, x) : q \in SeqsOf(S, n - 1), x \in S}

\* The receive buffers: DemiBuffer of 1..MaxRecvLen bytes.
RecvBufs == UNION {SeqsOf(RecvBytes, n) : n \in 1..MaxRecvLen}

\* What the runtime may report as the size of a completed request: the number
\* of bytes received, or the negated errno of the failed operation.
CompletionSizes == {-ECONNRESET, -EAGAIN} \cup (0..(MaxRecvLen + 1))

\* Poll::Pending, Poll::Ready(Ok((addr, buf))) and Poll::Ready(Err(fail)).
NoPoll == [tag |-> "none", buf |-> << >>, errno |-> 0]

Pending == [NoPoll EXCEPT !.tag = "Pending"]

ReadyOk(buf) == [NoPoll EXCEPT !.tag = "Ok", !.buf = buf]

ReadyErr(errno) == [NoPoll EXCEPT !.tag = "Err", !.errno = errno]

\* No pop future: request is the state of the request in the runtime, size
\* what it completed with, out what the last poll returned, woken whether that
\* poll called the waker.
NoPopFuture == [live |-> FALSE, buf |-> << >>, request |-> "none", size |-> 0, errno |-> 0,
                out |-> NoPoll, woken |-> FALSE, panic |-> "none"]

PopFutureInit == popfut = NoPopFuture

-----------------------------------------------------------------------------
\* SharedPassiveSocket::new

SocketInit ==
    /\ inflight = << >>
    /\ ready = << >>
    /\ endpoints = {}
    /\ waker = FALSE
    /\ max_backlog \in 1..MaxBacklog
    /\ tasks = [t \in TaskIds |-> FreeTask]
    /\ accept_pc = "idle"
    /\ call = NoCall
    /\ panic = "none"

Init ==
    /\ SocketInit
    /\ CatmemInit
    /\ CatcollarInit
    /\ MemoryInit
    /\ PopFutureInit

-----------------------------------------------------------------------------
\* ReadySockets (passive_open.rs:78-117)

\* waker.take() and wake(): the parked accept coroutine becomes runnable.
WakeAccept ==
    /\ waker' = FALSE
    /\ accept_pc' = IF waker THEN "runnable" ELSE accept_pc

\* Mutant of push_ok: the control block is queued and its remote not recorded.
push_ok_forgets_endpoint(cb) ==
    /\ ready' = Append(ready, cb)
    /\ WakeAccept
    /\ UNCHANGED <<endpoints, panic>>

\* ReadySockets::push_ok; the assert aborts when the remote is already there.
push_ok(cb) ==
    IF cb.remote \in endpoints
    THEN /\ panic' = "push_ok"
         /\ UNCHANGED <<ready, endpoints, waker, accept_pc>>
    ELSE /\ endpoints' = endpoints \cup {cb.remote}
         /\ ready' = Append(ready, cb)
         /\ WakeAccept
         /\ UNCHANGED panic

\* A push_err that leaves the parked waker where it is.
push_err_without_wake(err) ==
    /\ ready' = Append(ready, err)
    /\ UNCHANGED <<waker, accept_pc, endpoints, panic>>

\* ReadySockets::push_err
push_err(err) ==
    /\ ready' = Append(ready, err)
    /\ WakeAccept
    /\ UNCHANGED <<endpoints, panic>>

\* ReadySockets::len
ready_len == Len(ready)

\* ReadySockets::poll, called by poll_accept from the accept coroutine.
poll_accept ==
    /\ panic = "none"
    /\ accept_pc \in {"runnable", "parked"}
    /\ IF ready = << >>
       THEN /\ waker' = TRUE
            /\ accept_pc' = "parked"
            /\ call' = [NoCall EXCEPT !.op = "poll_accept", !.result = "Pending"]
            /\ UNCHANGED <<ready, endpoints, panic>>
       ELSE LET r == Head(ready) IN
            /\ ready' = Tail(ready)
            /\ IF r.ok
               THEN IF r.remote \in endpoints
                    THEN /\ endpoints' = endpoints \ {r.remote}
                         /\ UNCHANGED panic
                    ELSE /\ panic' = "poll"
                         /\ UNCHANGED endpoints
               ELSE UNCHANGED <<endpoints, panic>>
            /\ accept_pc' = "idle"
            /\ call' = [NoCall EXCEPT !.op = "poll_accept", !.result = "Ready", !.entry = r]
            /\ UNCHANGED waker
    /\ UNCHANGED <<inflight, max_backlog, tasks>>

\* The application issues accept: a coroutine that polls poll_accept is inserted.
Accept ==
    /\ panic = "none"
    /\ accept_pc = "idle"
    /\ accept_pc' = "runnable"
    /\ call' = [NoCall EXCEPT !.op = "accept"]
    /\ UNCHANGED <<inflight, ready, endpoints, waker, max_backlog, tasks, panic>>

-----------------------------------------------------------------------------
\* SharedPassiveSocket::receive (passive_open.rs:177-300)

\* What a receive call returned.
Returned(remote, result) == [NoCall EXCEPT !.op = "receive", !.remote = remote, !.result = result]

\* Mutant of MapRemove: the entry stays in the map.
MapRemove_Keeps(m, k) == m

\* The map without one key: HashMap::remove.
MapRemove(m, k) == [x \in DOMAIN m \ {k} |-> m[x]]

\* The map with one key set: HashMap::insert.
MapInsert(m, k, v) == [x \in DOMAIN m \cup {k} |-> IF x = k THEN v ELSE m[x]]

\* TaskHandle::deschedule: the scheduler no longer polls the task.
deschedule(t) ==
    IF tasks[t].status = "alive"
    THEN [tasks EXCEPT ![t] = [FreeTask EXCEPT !.status = "descheduled"]]
    ELSE tasks

\* The first free slot of the scheduler, 0 when it admits no more tasks.
FreeHandle ==
    IF \E t \in TaskIds : tasks[t].status = "free"
    THEN CHOOSE t \in TaskIds : tasks[t].status = "free" /\ \A u \in TaskIds : tasks[u].status = "free" => t <= u
    ELSE 0

\* A duplicate drop that lets only segments with the ACK flag pass.
ReceiveReady_requires_ack(remote, header) ==
    /\ remote \in endpoints
    /\ call' = Returned(remote, IF header.ack THEN "Ok" ELSE "EBADMSG")
    /\ UNCHANGED <<inflight, ready, endpoints, waker, max_backlog, tasks, accept_pc, panic>>

\* Lines 179-182: a segment for a connection that waits to be accepted.
ReceiveReady(remote, header) ==
    /\ remote \in endpoints
    /\ call' = Returned(remote, "Ok")
    /\ UNCHANGED <<inflight, ready, endpoints, waker, max_backlog, tasks, accept_pc, panic>>

\* Lines 187-189.
ReceiveExpectingAck(remote, header) ==
    /\ remote \notin endpoints
    /\ remote \in DOMAIN inflight
    /\ ~header.ack
    /\ call' = Returned(remote, "EBADMSG")
    /\ UNCHANGED <<inflight, ready, endpoints, waker, max_backlog, tasks, accept_pc, panic>>

\* A check of the acknowledgement number that gives the handshake up.
ReceiveInvalidAckNum_drops_entry(remote, header) ==
    /\ remote \notin endpoints
    /\ remote \in DOMAIN inflight
    /\ header.ack
    /\ header.ack_num # SeqAdd(inflight[remote].local_isn, 1)
    /\ inflight' = MapRemove(inflight, remote)
    /\ tasks' = deschedule(inflight[remote].handle)
    /\ call' = Returned(remote, "EBADMSG")
    /\ UNCHANGED <<ready, endpoints, waker, max_backlog, accept_pc, panic>>

\* Lines 199-201.
ReceiveInvalidAckNum(remote, header) ==
    /\ remote \notin endpoints
    /\ remote \in DOMAIN inflight
    /\ header.ack
    /\ header.ack_num # SeqAdd(inflight[remote].local_isn, 1)
    /\ call' = Returned(remote, "EBADMSG")
    /\ UNCHANGED <<inflight, ready, endpoints, waker, max_backlog, tasks, accept_pc, panic>>

\* Lines 203-206: the window scales of the two sides.
local_window_scale(accept) ==
    IF accept.remote_window_scale.some THEN ConfigWindowScale ELSE 0

remote_window_scale(accept) ==
    IF accept.remote_window_scale.some THEN accept.remote_window_scale.val ELSE 0

\* Lines 207-211: header_window_size is a u16 and is shifted as a u16.
remote_window_size(accept) ==
    checked_shl_u16(accept.header_window_size, remote_window_scale(accept))

\* Lines 212-214: the receive window is widened to u32 before the shift.
local_window_size(accept) ==
    checked_shl_u32(ConfigReceiveWindowSize, local_window_scale(accept))

\* Lines 228-247: SharedControlBlock::new.
ControlBlock(remote, accept) ==
    [ok |-> TRUE,
     remote |-> remote,
     receive_next |-> SeqAdd(accept.remote_isn, 1),
     send_next |-> SeqAdd(accept.local_isn, 1),
     local_window_size |-> local_window_size(accept).val,
     local_window_scale |-> local_window_scale(accept),
     remote_window_size |-> remote_window_size(accept).val,
     remote_window_scale |-> remote_window_scale(accept),
     mss |-> accept.mss]

\* Lines 207-214: expect() aborts on a shift that checked_shl refuses.
ReceiveWindowOverflow(remote, header) ==
    /\ remote \notin endpoints
    /\ remote \in DOMAIN inflight
    /\ header.ack
    /\ header.ack_num = SeqAdd(inflight[remote].local_isn, 1)
    /\ ~remote_window_size(inflight[remote]).some \/ ~local_window_size(inflight[remote]).some
    /\ panic' = "Window size overflow"
    /\ call' = Returned(remote, "panic")
    /\ UNCHANGED <<inflight, ready, endpoints, waker, max_backlog, tasks, accept_pc>>

\* Lines 186-250: the final ACK of the handshake.
ReceiveAck(remote, header) ==
    /\ remote \notin endpoints
    /\ remote \in DOMAIN inflight
    /\ header.ack
    /\ header.ack_num = SeqAdd(inflight[remote].local_isn, 1)
    /\ remote_window_size(inflight[remote]).some
    /\ local_window_size(inflight[remote]).some
    /\ inflight' = MapRemove(inflight, remote)
    /\ tasks' = deschedule(inflight[remote].handle)
    /\ push_ok(ControlBlock(remote, inflight[remote]))
    /\ call' = Returned(remote, IF remote \in endpoints THEN "panic" ELSE "Ok")
    /\ UNCHANGED max_backlog

\* A flag check that comes after the backlog check.
ReceiveInvalidFlags_after_backlog(remote, header) ==
    /\ remote \notin endpoints
    /\ remote \notin DOMAIN inflight
    /\ ~header.syn \/ header.ack \/ header.rst
    /\ call' = Returned(remote, IF Cardinality(DOMAIN inflight) + Len(ready) >= max_backlog
                                THEN "ECONNREFUSED" ELSE "EBADMSG")
    /\ UNCHANGED <<inflight, ready, endpoints, waker, max_backlog, tasks, accept_pc, panic>>

\* Lines 253-255.
ReceiveInvalidFlags(remote, header) ==
    /\ remote \notin endpoints
    /\ remote \notin DOMAIN inflight
    /\ ~header.syn \/ header.ack \/ header.rst
    /\ call' = Returned(remote, "EBADMSG")
    /\ UNCHANGED <<inflight, ready, endpoints, waker, max_backlog, tasks, accept_pc, panic>>

\* Mutant of backlog_full: the comparison is strict.
backlog_full_strict == Cardinality(DOMAIN inflight) + ready_len > max_backlog

\* Line 257: the backlog check; inflight_len was read at line 183.
backlog_full == Cardinality(DOMAIN inflight) + ready_len >= max_backlog

\* Lines 257-266.
ReceiveBacklogFull(remote, header) ==
    /\ remote \notin endpoints
    /\ remote \notin DOMAIN inflight
    /\ header.syn /\ ~header.ack /\ ~header.rst
    /\ backlog_full
    /\ call' = Returned(remote, "ECONNREFUSED")
    /\ UNCHANGED <<inflight, ready, endpoints, waker, max_backlog, tasks, accept_pc, panic>>

\* Lines 271-273: insert_background_coroutine fails and `?` returns its error.
ReceiveInsertFailed(remote, header) ==
    /\ remote \notin endpoints
    /\ remote \notin DOMAIN inflight
    /\ header.syn /\ ~header.ack /\ ~header.rst
    /\ ~backlog_full
    /\ call' = Returned(remote, "EAGAIN")
    /\ UNCHANGED <<inflight, ready, endpoints, waker, max_backlog, tasks, accept_pc, panic>>

\* Lines 275-297: the InflightAccept built from the SYN.
NewInflightAccept(remote, header, handle) ==
    [local_isn |-> isn_generate(remote),
     remote_isn |-> header.seq_num,
     header_window_size |-> header.window_size,
     remote_window_scale |-> header.options.window_scale,
     mss |-> IF header.options.mss.some THEN header.options.mss.val ELSE FALLBACK_MSS,
     handle |-> handle]

\* Lines 267-299: a SYN is admitted.
ReceiveSyn(remote, header) ==
    /\ remote \notin endpoints
    /\ remote \notin DOMAIN inflight
    /\ header.syn /\ ~header.ack /\ ~header.rst
    /\ ~backlog_full
    /\ FreeHandle # 0
    /\ LET handle == FreeHandle IN
        /\ tasks' = [tasks EXCEPT ![handle] =
                        [status |-> "alive", remote |-> remote, remote_isn |-> header.seq_num,
                         local_isn |-> isn_generate(remote), iter |-> 0, pc |-> "arp"]]
        /\ inflight' = MapInsert(inflight, remote, NewInflightAccept(remote, header, handle))
    /\ call' = Returned(remote, "Ok")
    /\ UNCHANGED <<ready, endpoints, waker, max_backlog, accept_pc, panic>>

receive(remote, header) ==
    /\ panic = "none"
    /\ \/ ReceiveReady(remote, header)
       \/ ReceiveExpectingAck(remote, header)
       \/ ReceiveInvalidAckNum(remote, header)
       \/ ReceiveWindowOverflow(remote, header)
       \/ ReceiveAck(remote, header)
       \/ ReceiveInvalidFlags(remote, header)
       \/ ReceiveBacklogFull(remote, header)
       \/ ReceiveInsertFailed(remote, header)
       \/ ReceiveSyn(remote, header)

-----------------------------------------------------------------------------
\* SharedPassiveSocket::background (passive_open.rs:302-340)

\* What a step of a background coroutine did.
BackgroundStep(result) == [NoCall EXCEPT !.op = "background", !.result = result]

\* A SYN+ACK that acknowledges remote_isn itself.
SynAck_acks_isn(t) ==
    [remote |-> tasks[t].remote,
     syn |-> TRUE, ack |-> TRUE,
     seq_num |-> tasks[t].local_isn,
     ack_num |-> tasks[t].remote_isn,
     window_size |-> ConfigReceiveWindowSize,
     options |-> [window_scale |-> Some(ConfigWindowScale), mss |-> Some(ConfigAdvertisedMss)]]

\* Lines 314-335: the SYN+ACK of one iteration.
SynAck(t) ==
    [remote |-> tasks[t].remote,
     syn |-> TRUE, ack |-> TRUE,
     seq_num |-> tasks[t].local_isn,
     ack_num |-> SeqAdd(tasks[t].remote_isn, 1),
     window_size |-> ConfigReceiveWindowSize,
     options |-> [window_scale |-> Some(ConfigWindowScale), mss |-> Some(ConfigAdvertisedMss)]]

\* The end of one iteration of the for loop: the next one, or line 339.
NextIteration(t) ==
    IF tasks[t].iter + 1 >= HandshakeRetries
    THEN /\ tasks' = [tasks EXCEPT ![t] = [FreeTask EXCEPT !.status = "completed"]]
         /\ push_err([ok |-> FALSE, errno |-> "ETIMEDOUT"])
         /\ call' = BackgroundStep("ETIMEDOUT")
    ELSE /\ tasks' = [tasks EXCEPT ![t].iter = @ + 1, ![t].pc = "arp"]
         /\ call' = BackgroundStep("continue")
         /\ UNCHANGED <<ready, endpoints, waker, accept_pc, panic>>

\* Lines 307-313: the ARP query fails and the loop continues.
BackgroundArpFailed(t) ==
    /\ panic = "none"
    /\ tasks[t].status = "alive"
    /\ tasks[t].pc = "arp"
    /\ NextIteration(t)
    /\ UNCHANGED <<inflight, max_backlog>>

\* Lines 307-337: the ARP query answers, the SYN+ACK is sent, the timer starts.
BackgroundTransmit(t) ==
    /\ panic = "none"
    /\ tasks[t].status = "alive"
    /\ tasks[t].pc = "arp"
    /\ tasks' = [tasks EXCEPT ![t].pc = "wait"]
    /\ call' = [BackgroundStep("transmit") EXCEPT !.segment = SynAck(t)]
    /\ UNCHANGED <<inflight, ready, endpoints, waker, max_backlog, accept_pc, panic>>

\* Line 337: handshake_timeout has elapsed.
BackgroundTimeout(t) ==
    /\ panic = "none"
    /\ tasks[t].status = "alive"
    /\ tasks[t].pc = "wait"
    /\ NextIteration(t)
    /\ UNCHANGED <<inflight, max_backlog>>

background(t) ==
    \/ BackgroundArpFailed(t)
    \/ BackgroundTransmit(t)
    \/ BackgroundTimeout(t)

-----------------------------------------------------------------------------

Next ==
    \/ \E remote \in Remotes : \E header \in Headers(remote) :
          receive(remote, header) /\ UNCHANGED <<cmvars, ccvars, mrvars, pfvars>>
    \/ \E t \in TaskIds : background(t) /\ UNCHANGED <<cmvars, ccvars, mrvars, pfvars>>
    \/ Accept /\ UNCHANGED <<cmvars, ccvars, mrvars, pfvars>>
    \/ poll_accept /\ UNCHANGED <<cmvars, ccvars, mrvars, pfvars>>

Spec == Init /\ [][Next]_vars

\* The scheduler keeps polling the coroutines that can run, ARP queries and
\* timers end, and the application keeps accepting; inbound segments are not
\* forced.
FairSpec ==
    /\ Spec
    /\ \A t \in TaskIds : WF_vars(background(t) /\ UNCHANGED <<cmvars, ccvars, mrvars, pfvars>>)
    /\ WF_vars(poll_accept /\ UNCHANGED <<cmvars, ccvars, mrvars, pfvars>>)
    /\ WF_vars(Accept /\ UNCHANGED <<cmvars, ccvars, mrvars, pfvars>>)

-----------------------------------------------------------------------------
\* Ring: the shared ring and the state machine of one of its endpoints
\* (catmem/ring.rs), as the specification describes them in 4.5: try_push
\* returns false when the ring is full; try_pop returns (None, false) when it
\* is empty, (Some(b), false) for data and (_, true) when it consumes the
\* end-of-file marker; close and try_close write the marker and fail when the
\* ring is full; an endpoint goes Opened -> Closing -> Closed in transitions
\* that are prepared and then committed or aborted.

ring_is_full == Len(ring) >= RingCapacity

can_prepare_close(side) == state[side].current = "Opened"

prepare_close(st, side) == [st EXCEPT ![side].prepared = "Closing"]

prepare_closed(st, side) == [st EXCEPT ![side].prepared = "Closed"]

commit(st, side) ==
    [st EXCEPT ![side] = IF @.prepared = "none" THEN @
                         ELSE [current |-> @.prepared, prepared |-> "none"]]

\* What try_pop may return with eof = true: the specification leaves the byte
\* open.
EofBytes == {None, Some(0)}

-----------------------------------------------------------------------------
\* CatmemQueue

\* qcall keeps what the last turn of do_pop got from try_pop and the error of
\* the last call that failed.
QCall(op, side, result) ==
    IF result \in {"Ok", "true", "false"} THEN NoQCall
    ELSE [NoQCall EXCEPT !.op = op, !.side = side, !.result = result]

\* The handle that the scheduler gives to an inserted coroutine, 0 when its
\* resources are exhausted and the insertion fails.
FreeOpId(side) ==
    LET slots == {t \in OpIds : t <= limits.ops[side] /\ ops[side][t].status = "free"} IN
    IF slots # {}
    THEN CHOOSE t \in slots : \A u \in slots : t <= u
    ELSE 0

\* CatmemQueue::add_pending_op
add_pending_op(side, handle) == [pending_ops EXCEPT ![side] = @ \cup {handle}]

\* CatmemQueue::remove_pending_op: remove_entry, and whether its expect finds
\* the entry.
remove_pending_op(side, handle) == [pending_ops EXCEPT ![side] = @ \ {handle}]

remove_pending_op_ok(side, handle) == handle \in pending_ops[side]

\* What running holds for an endpoint whose process a panic has aborted: no
\* call is made and no coroutine is polled on it any more.
Aborted == -1

\* A cancel_pending_ops that wakes every registered operation, completed or not.
cancel_pending_ops_wakes_completed(side, cause) ==
    [t \in OpIds |->
        IF t \in pending_ops[side]
        THEN [ops[side][t] EXCEPT !.wake = cause, !.cancelled = TRUE]
        ELSE ops[side][t]]

\* CatmemQueue::cancel_pending_ops: the operations of the queue after every
\* registered one that has not completed was woken with the error.
cancel_pending_ops(side, cause) ==
    [t \in OpIds |->
        IF t \in pending_ops[side] /\ ops[side][t].status # "completed"
        THEN [ops[side][t] EXCEPT !.wake = cause, !.cancelled = TRUE]
        ELSE ops[side][t]]

\* A do_generic_sync_data_path_call that drops the error of a failed spawn.
do_generic_sync_data_path_call_drops_error(side, name, op) ==
    /\ running[side] = 0
    /\ IF FreeOpId(side) # 0
       THEN /\ ops' = [ops EXCEPT ![side][FreeOpId(side)] = op]
            /\ pending_ops' = add_pending_op(side, FreeOpId(side))
            /\ next_byte' = next_byte + Len(op.buf)
            /\ hist' = IF name = "push" /\ side = "PushOnly" /\ hist.closed
                       THEN [hist EXCEPT !.clean = FALSE] ELSE hist
       ELSE UNCHANGED <<ops, pending_ops, next_byte, hist>>
    /\ qcall' = QCall(name, side, "Ok")
    /\ UNCHANGED <<ring, state, running, closer>>

\* CatmemQueue::do_generic_sync_data_path_call: insert the coroutine and
\* register it as a pending operation, or return the scheduler's error when it
\* has no room for the coroutine.
do_generic_sync_data_path_call(side, name, op) ==
    /\ running[side] = 0
    /\ IF FreeOpId(side) # 0
       THEN /\ ops' = [ops EXCEPT ![side][FreeOpId(side)] = op]
            /\ pending_ops' = add_pending_op(side, FreeOpId(side))
            /\ next_byte' = next_byte + Len(op.buf)
            /\ hist' = IF name = "push" /\ side = "PushOnly" /\ hist.closed
                       THEN [hist EXCEPT !.clean = FALSE] ELSE hist
            /\ qcall' = QCall(name, side, "Ok")
       ELSE /\ qcall' = QCall(name, side, "insert failed")
            /\ UNCHANGED <<ops, pending_ops, next_byte, hist>>
    /\ UNCHANGED <<ring, state, running, closer>>

\* The buffer of n bytes that a push submits: the next n bytes of the stream.
Buffer(n) == [i \in 1..n |-> next_byte + i - 1]

\* CatmemQueue::push with the coroutine of do_push
push(side, n) ==
    /\ next_byte + n - 1 <= limits.bytes
    /\ do_generic_sync_data_path_call(side, "push",
           [FreeOp EXCEPT !.status = "inserted", !.kind = "push", !.buf = Buffer(n)])

\* CatmemQueue::pop with the coroutine of do_pop
pop(side, size) ==
    do_generic_sync_data_path_call(side, "pop",
        [FreeOp EXCEPT !.status = "inserted", !.kind = "pop", !.size = size])

\* A coroutine that has returned.
Completed(op, result, eof) ==
    [FreeOp EXCEPT !.status = "completed", !.kind = op.kind, !.result = result, !.eof = eof,
                   !.buf = IF op.kind = "pop" /\ result = "Ok" THEN op.buf ELSE << >>,
                   !.cancelled = op.cancelled]

ReturnFrom(op, side, t, result, eof) ==
    /\ ops' = [ops EXCEPT ![side][t] = Completed(op, result, eof)]
    /\ running' = [running EXCEPT ![side] = 0]

Return(side, t, result, eof) == ReturnFrom(ops[side][t], side, t, result, eof)

\* Yielder::yield_once: the coroutine is suspended until its scheduler polls it
\* again.
yield_once(side, t) ==
    /\ ops' = [ops EXCEPT ![side][t].status = "yielded"]
    /\ running' = [running EXCEPT ![side] = 0]

\* The scheduler of an endpoint polls a coroutine: one that was suspended in
\* yield_once resumes with the error that a wake left for it, if any.
poll(side, t) ==
    /\ running[side] = 0
    /\ ops[side][t].status \in {"inserted", "yielded"}
    /\ IF ops[side][t].status = "yielded" /\ ops[side][t].wake # "none"
       THEN /\ Return(side, t, ops[side][t].wake, FALSE)
            /\ qcall' = QCall("yield_once", side, ops[side][t].wake)
       ELSE /\ ops' = [ops EXCEPT ![side][t].status = "running"]
            /\ running' = [running EXCEPT ![side] = t]
            /\ qcall' = QCall("poll", side, "Ok")
    /\ UNCHANGED <<ring, state, pending_ops, next_byte, hist, closer>>

\* Another push of the endpoint is suspended in yield_once: with the yield of
\* t, two pushes wait for room in the ring. hist.contended keeps that this has
\* happened.
OtherPushYielded(side, t) ==
    \E u \in OpIds \ {t} : ops[side][u].kind = "push" /\ ops[side][u].status = "yielded"

\* A do_push that goes on to the next byte when it yields.
do_push_skips_byte(side, t) ==
    LET op == ops[side][t] IN
    /\ running[side] = t
    /\ op.kind = "push"
    /\ IF op.index >= Len(op.buf)
       THEN /\ Return(side, t, "Ok", FALSE)
            /\ hist' = IF side = "PushOnly" THEN [hist EXCEPT !.sent = @ \o op.buf] ELSE hist
            /\ qcall' = QCall("do_push", side, "Ok")
            /\ UNCHANGED ring
       ELSE IF side = "PopOnly"
       THEN /\ Return(side, t, "EINVAL", FALSE)
            /\ qcall' = QCall("try_push", side, "EINVAL")
            /\ UNCHANGED <<ring, hist>>
       ELSE IF ring_is_full
       THEN /\ ops' = [ops EXCEPT ![side][t].status = "yielded", ![side][t].index = @ + 1]
            /\ running' = [running EXCEPT ![side] = 0]
            /\ qcall' = QCall("try_push", side, "false")
            /\ hist' = [hist EXCEPT !.contended = @ \/ OtherPushYielded(side, t)]
            /\ UNCHANGED ring
       ELSE /\ ring' = Append(ring, Data(op.buf[op.index + 1]))
            /\ ops' = [ops EXCEPT ![side][t].index = @ + 1]
            /\ qcall' = QCall("try_push", side, "true")
            /\ UNCHANGED <<running, hist>>
    /\ UNCHANGED <<state, pending_ops, next_byte, closer>>

\* CatmemQueue::do_push, one turn of its loop: try_push of the next byte.
do_push(side, t) ==
    LET op == ops[side][t] IN
    /\ running[side] = t
    /\ op.kind = "push"
    /\ IF op.index >= Len(op.buf)
       THEN /\ Return(side, t, "Ok", FALSE)
            /\ hist' = IF side = "PushOnly" THEN [hist EXCEPT !.sent = @ \o op.buf] ELSE hist
            /\ qcall' = QCall("do_push", side, "Ok")
            /\ UNCHANGED ring
       ELSE IF side = "PopOnly"
       THEN /\ Return(side, t, "EINVAL", FALSE)
            /\ qcall' = QCall("try_push", side, "EINVAL")
            /\ UNCHANGED <<ring, hist>>
       ELSE IF ring_is_full
       THEN /\ yield_once(side, t)
            /\ qcall' = QCall("try_push", side, "false")
            /\ hist' = [hist EXCEPT !.contended = @ \/ OtherPushYielded(side, t)]
            /\ UNCHANGED ring
       ELSE /\ ring' = Append(ring, Data(op.buf[op.index + 1]))
            /\ ops' = [ops EXCEPT ![side][t].index = @ + 1]
            /\ qcall' = QCall("try_push", side, "true")
            /\ UNCHANGED <<running, hist>>
    /\ UNCHANGED <<state, pending_ops, next_byte, closer>>

\* The bytes and the end of file that the application has been given.
Deliver(buf, eof) ==
    IF hist.eof THEN hist ELSE [hist EXCEPT !.received = @ \o buf, !.eof = eof]

TryPopResult(side, byte, eof, result) ==
    [op |-> "try_pop", side |-> side, byte |-> byte, eof |-> eof, result |-> result]

\* A store that loses the byte.
StoreByte_loses_byte(buf, byte) == buf

\* do_pop, lines 192-193: buf[index] = byte
StoreByte(buf, byte) == Append(buf, byte)

\* CatmemQueue::do_pop, one turn of its loop: try_pop and the arm that matches
\* its result.
do_pop(side, t) ==
    LET op == ops[side][t] IN
    /\ running[side] = t
    /\ op.kind = "pop"
    /\ IF side = "PushOnly"
       THEN /\ Return(side, t, "EINVAL", FALSE)
            /\ qcall' = TryPopResult(side, None, FALSE, "EINVAL")
            /\ UNCHANGED <<ring, state, hist>>
       ELSE IF ring = << >>
       THEN /\ qcall' = TryPopResult(side, None, FALSE, "Ok")
            /\ IF op.index > 0
               THEN /\ Return(side, t, "Ok", FALSE)
                    /\ hist' = Deliver(op.buf, FALSE)
               ELSE /\ yield_once(side, t)
                    /\ UNCHANGED hist
            /\ UNCHANGED <<ring, state>>
       ELSE IF ~Head(ring).eof
       THEN /\ ring' = Tail(ring)
            /\ qcall' = TryPopResult(side, Some(Head(ring).byte), FALSE, "Ok")
            /\ IF op.index + 1 >= op.size
               THEN /\ ReturnFrom([op EXCEPT !.buf = StoreByte(@, Head(ring).byte)],
                                   side, t, "Ok", FALSE)
                    /\ hist' = Deliver(StoreByte(op.buf, Head(ring).byte), FALSE)
               ELSE /\ ops' = [ops EXCEPT ![side][t].buf = StoreByte(@, Head(ring).byte),
                                          ![side][t].index = @ + 1]
                    /\ UNCHANGED <<running, hist>>
            /\ UNCHANGED state
       ELSE \E byte \in EofBytes :
            /\ ring' = Tail(ring)
            /\ IF ~can_prepare_close(side)
               THEN /\ Return(side, t, "prepare_close", FALSE)
                    /\ qcall' = TryPopResult(side, None, FALSE, "prepare_close")
                    /\ UNCHANGED <<state, hist>>
               ELSE /\ state' = commit(prepare_close(state, side), side)
                    /\ qcall' = TryPopResult(side, byte, TRUE, "Ok")
                    /\ IF byte.some
                       THEN /\ Return(side, t, "Ok", TRUE)
                            /\ hist' = [Deliver(op.buf, TRUE) EXCEPT !.try_eof = TRUE]
                       ELSE IF op.index > 0
                       THEN /\ Return(side, t, "Ok", FALSE)
                            /\ hist' = [Deliver(op.buf, FALSE) EXCEPT !.try_eof = TRUE]
                       ELSE /\ yield_once(side, t)
                            /\ hist' = [hist EXCEPT !.try_eof = TRUE]
    /\ UNCHANGED <<pending_ops, next_byte, closer>>

\* CatmemQueue::close
close(side) ==
    /\ running[side] = 0
    /\ IF ~can_prepare_close(side)
       THEN /\ qcall' = QCall("close", side, "prepare_close")
            /\ UNCHANGED <<ring, state, pending_ops, ops, hist>>
       ELSE IF ring_is_full
       THEN /\ state' = prepare_close(state, side)
            /\ qcall' = QCall("close", side, "ring.close")
            /\ UNCHANGED <<ring, pending_ops, ops, hist>>
       ELSE /\ ring' = Append(ring, Eof)
            /\ state' = commit(prepare_closed(commit(prepare_close(state, side), side), side), side)
            /\ ops' = [ops EXCEPT ![side] = cancel_pending_ops(side, "ECANCELED")]
            /\ pending_ops' = [pending_ops EXCEPT ![side] = {}]
            /\ hist' = IF side = "PushOnly"
                       THEN [hist EXCEPT !.closed = TRUE, !.sent_at_close = hist.sent,
                                         !.clean = \A t \in OpIds :
                                                      ops[side][t].status \in {"free", "completed"}]
                       ELSE hist
            /\ qcall' = QCall("close", side, "Ok")
    /\ UNCHANGED <<running, next_byte, closer>>

\* Ring::abort: a prepared transition is dropped.
abort(st, side) == [st EXCEPT ![side].prepared = "none"]

\* A control-path call that commits the prepared transition although the
\* coroutine could not be spawned.
do_generic_sync_control_path_call_without_abort(side, spawned) ==
    IF spawned
    THEN /\ closer' = [closer EXCEPT ![side].status = "inserted",
                                     ![side].task_id = CloserTaskId,
                                     ![side].qt = CloserTaskId]
         /\ state' = commit(prepare_close(state, side), side)
         /\ qcall' = QCall("async_close", side, "Ok")
    ELSE /\ state' = commit(prepare_close(state, side), side)
         /\ qcall' = QCall("async_close", side, "insert failed")
         /\ UNCHANGED closer

\* CatmemQueue::do_generic_sync_control_path_call for the coroutine of
\* do_async_close. spawned is the outcome of the caller's insert_coroutine:
\* commit when the coroutine was spawned, abort and return its error otherwise.
\* The token is the id of the spawned task; add_as_pending_op is false, so the
\* coroutine is not registered as a pending operation.
do_generic_sync_control_path_call(side, spawned) ==
    IF spawned
    THEN /\ closer' = [closer EXCEPT ![side].status = "inserted",
                                     ![side].task_id = CloserTaskId,
                                     ![side].qt = CloserTaskId]
         /\ state' = commit(prepare_close(state, side), side)
         /\ qcall' = QCall("async_close", side, "Ok")
    ELSE /\ state' = abort(prepare_close(state, side), side)
         /\ qcall' = QCall("async_close", side, "insert failed")
         /\ UNCHANGED closer

\* CatmemQueue::async_close
async_close(side, spawned) ==
    /\ running[side] = 0
    /\ IF ~can_prepare_close(side)
       THEN /\ qcall' = QCall("async_close", side, "prepare_close")
            /\ UNCHANGED <<state, closer>>
       ELSE do_generic_sync_control_path_call(side, spawned)
    /\ UNCHANGED <<ring, pending_ops, ops, running, next_byte, hist>>

\* A do_async_close that tries once more than MAX_RETRIES_PUSH_EOF times.
do_async_close_tries_once_more(side) ==
    /\ running[side] = 0
    /\ closer[side].status \in {"inserted", "yielded"}
    /\ IF closer[side].retries > MAX_RETRIES_PUSH_EOF
       THEN /\ closer' = [closer EXCEPT ![side].status = "completed", ![side].result = "EIO"]
            /\ qcall' = QCall("do_async_close", side, "EIO")
            /\ UNCHANGED ring
       ELSE IF ~ring_is_full
       THEN /\ ring' = Append(ring, Eof)
            /\ closer' = [closer EXCEPT ![side].status = "completed", ![side].result = "Ok"]
            /\ qcall' = QCall("do_async_close", side, "Ok")
       ELSE /\ closer' = [closer EXCEPT ![side].status = "yielded", ![side].retries = @ + 1]
            /\ qcall' = QCall("try_close", side, "false")
            /\ UNCHANGED ring
    /\ UNCHANGED <<state, pending_ops, ops, running, next_byte, hist>>

\* CatmemQueue::do_async_close, one poll of the coroutine: a turn of its loop
\* up to the return or the next yield. try_close writes the end-of-file marker
\* unless the ring is full; nothing wakes the yielder of this coroutine.
do_async_close(side) ==
    /\ running[side] = 0
    /\ closer[side].status \in {"inserted", "yielded"}
    /\ IF closer[side].retries >= MAX_RETRIES_PUSH_EOF
       THEN /\ closer' = [closer EXCEPT ![side].status = "completed", ![side].result = "EIO"]
            /\ qcall' = QCall("do_async_close", side, "EIO")
            /\ UNCHANGED ring
       ELSE IF ~ring_is_full
       THEN /\ ring' = Append(ring, Eof)
            /\ closer' = [closer EXCEPT ![side].status = "completed", ![side].result = "Ok"]
            /\ qcall' = QCall("do_async_close", side, "Ok")
       ELSE /\ closer' = [closer EXCEPT ![side].status = "yielded", ![side].retries = @ + 1]
            /\ qcall' = QCall("try_close", side, "false")
            /\ UNCHANGED ring
    /\ UNCHANGED <<state, pending_ops, ops, running, next_byte, hist>>

\* The application takes the result of a completed operation: the scheduler
\* gives the coroutine up and the queue forgets the operation with
\* remove_pending_op, whose expect aborts the process when the operation is
\* not registered.
take(side, t) ==
    /\ running[side] = 0
    /\ ops[side][t].status = "completed"
    /\ ops' = [ops EXCEPT ![side][t] = FreeOp]
    /\ IF remove_pending_op_ok(side, t)
       THEN /\ pending_ops' = remove_pending_op(side, t)
            /\ qcall' = QCall("take", side, ops[side][t].result)
            /\ UNCHANGED running
       ELSE /\ qcall' = QCall("remove_pending_op", side, "operation should be registered")
            /\ running' = [running EXCEPT ![side] = Aborted]
            /\ UNCHANGED pending_ops
    /\ UNCHANGED <<ring, state, next_byte, hist, closer>>

\* The producer pushes to the push end and the consumer pops from the pop end.
CatmemNext ==
    \/ \E n \in 0..MaxBufLen : push("PushOnly", n) /\ UNCHANGED <<povars, ccvars, mrvars, pfvars, limits>>
    \/ \E size \in 1..MaxPopSize : pop("PopOnly", size) /\ UNCHANGED <<povars, ccvars, mrvars, pfvars, limits>>
    \/ \E side \in Sides : \E t \in OpIds : poll(side, t) /\ UNCHANGED <<povars, ccvars, mrvars, pfvars, limits>>
    \/ \E side \in Sides : \E t \in OpIds : do_push(side, t) /\ UNCHANGED <<povars, ccvars, mrvars, pfvars, limits>>
    \/ \E side \in Sides : \E t \in OpIds : do_pop(side, t) /\ UNCHANGED <<povars, ccvars, mrvars, pfvars, limits>>
    \/ \E side \in Sides : close(side) /\ UNCHANGED <<povars, ccvars, mrvars, pfvars, limits>>
    \/ \E side \in Sides : \E t \in OpIds : take(side, t) /\ UNCHANGED <<povars, ccvars, mrvars, pfvars, limits>>

CatmemInitial == Init /\ max_backlog = MaxBacklog

CatmemSpec == CatmemInitial /\ [][CatmemNext]_vars

\* Each scheduler polls every coroutine that can run again and again, a polled
\* coroutine runs to its next yield, and the consumer keeps popping and taking
\* results.
FairCatmemSpec ==
    /\ CatmemSpec
    /\ \A side \in Sides : \A t \in OpIds :
          /\ SF_vars(poll(side, t) /\ UNCHANGED <<povars, ccvars, mrvars, pfvars, limits>>)
          /\ WF_vars(do_push(side, t) /\ UNCHANGED <<povars, ccvars, mrvars, pfvars, limits>>)
          /\ WF_vars(do_pop(side, t) /\ UNCHANGED <<povars, ccvars, mrvars, pfvars, limits>>)
          /\ SF_vars(take(side, t) /\ UNCHANGED <<povars, ccvars, mrvars, pfvars, limits>>)
    /\ SF_vars(\E size \in 1..MaxPopSize : pop("PopOnly", size) /\ UNCHANGED <<povars, ccvars, mrvars, pfvars, limits>>)

\* The memory queue with two pushes at a time on the push end: the producer
\* pushes, the consumer pops, and no end is closed.
PushOrderNext ==
    \/ \E n \in 1..MaxBufLen : push("PushOnly", n) /\ UNCHANGED <<povars, ccvars, mrvars, pfvars, limits>>
    \/ \E size \in 1..MaxPopSize : pop("PopOnly", size) /\ UNCHANGED <<povars, ccvars, mrvars, pfvars, limits>>
    \/ \E side \in Sides : \E t \in OpIds : poll(side, t) /\ UNCHANGED <<povars, ccvars, mrvars, pfvars, limits>>
    \/ \E side \in Sides : \E t \in OpIds : do_push(side, t) /\ UNCHANGED <<povars, ccvars, mrvars, pfvars, limits>>
    \/ \E side \in Sides : \E t \in OpIds : do_pop(side, t) /\ UNCHANGED <<povars, ccvars, mrvars, pfvars, limits>>
    \/ \E side \in Sides : \E t \in OpIds : take(side, t) /\ UNCHANGED <<povars, ccvars, mrvars, pfvars, limits>>

PushOrderInitial ==
    /\ SocketInit /\ max_backlog = MaxBacklog
    /\ RingInit(PushOrderLimits)
    /\ CatcollarInit
    /\ MemoryInit
    /\ PopFutureInit

PushOrderSpec == PushOrderInitial /\ [][PushOrderNext]_vars

\* The memory queue with the asynchronous close: either end may also be closed
\* through async_close, whose coroutine the scheduler polls like the others.
AsyncCloseNext ==
    \/ CatmemNext
    \/ \E side \in Sides : \E spawned \in BOOLEAN :
          async_close(side, spawned) /\ UNCHANGED <<povars, ccvars, mrvars, pfvars, limits>>
    \/ \E side \in Sides : do_async_close(side) /\ UNCHANGED <<povars, ccvars, mrvars, pfvars, limits>>

AsyncCloseSpec == CatmemInitial /\ [][AsyncCloseNext]_vars

FairAsyncCloseSpec ==
    /\ AsyncCloseSpec
    /\ \A side \in Sides : \A t \in OpIds :
          /\ SF_vars(poll(side, t) /\ UNCHANGED <<povars, ccvars, mrvars, pfvars, limits>>)
          /\ WF_vars(do_push(side, t) /\ UNCHANGED <<povars, ccvars, mrvars, pfvars, limits>>)
          /\ WF_vars(do_pop(side, t) /\ UNCHANGED <<povars, ccvars, mrvars, pfvars, limits>>)
          /\ SF_vars(take(side, t) /\ UNCHANGED <<povars, ccvars, mrvars, pfvars, limits>>)
    /\ \A side \in Sides : SF_vars(do_async_close(side) /\ UNCHANGED <<povars, ccvars, mrvars, pfvars, limits>>)

\* The same, with no more fairness than the termination of the close coroutine
\* rests on: a coroutine that runs goes on to its next yield, and the scheduler
\* polls the close coroutine again and again.
FairCloserSpec ==
    /\ AsyncCloseSpec
    /\ \A side \in Sides : \A t \in OpIds :
          /\ WF_vars(do_push(side, t) /\ UNCHANGED <<povars, ccvars, mrvars, pfvars, limits>>)
          /\ WF_vars(do_pop(side, t) /\ UNCHANGED <<povars, ccvars, mrvars, pfvars, limits>>)
    /\ \A side \in Sides : SF_vars(do_async_close(side) /\ UNCHANGED <<povars, ccvars, mrvars, pfvars, limits>>)

\* The memory queue with callers that also use an end in the wrong direction:
\* a push on the pop end, a pop on the push end.
SidednessNext ==
    \/ CatmemNext
    \/ \E n \in 0..MaxBufLen : push("PopOnly", n) /\ UNCHANGED <<povars, ccvars, mrvars, pfvars, limits>>
    \/ \E size \in 1..MaxPopSize : pop("PushOnly", size) /\ UNCHANGED <<povars, ccvars, mrvars, pfvars, limits>>

SidednessSpec == CatmemInitial /\ [][SidednessNext]_vars

FairSidednessSpec ==
    /\ SidednessSpec
    /\ \A side \in Sides : \A t \in OpIds :
          /\ SF_vars(poll(side, t) /\ UNCHANGED <<povars, ccvars, mrvars, pfvars, limits>>)
          /\ WF_vars(do_push(side, t) /\ UNCHANGED <<povars, ccvars, mrvars, pfvars, limits>>)
          /\ WF_vars(do_pop(side, t) /\ UNCHANGED <<povars, ccvars, mrvars, pfvars, limits>>)
          /\ SF_vars(take(side, t) /\ UNCHANGED <<povars, ccvars, mrvars, pfvars, limits>>)

-----------------------------------------------------------------------------
\* CatcollarLibOS (catcollar/mod.rs) behind NetworkLibOS (libos/network.rs)

\* What a libOS call returned: 0 for Ok, the errno of its Fail otherwise, and
\* the queue token of a data-path call.
CcReturn(op, qd, ret, qt) == [NoCCall EXCEPT !.op = op, !.qd = qd, !.ret = ret, !.qt = qt]

\* IoQueueTable::get
QueueOf(qd) == IF qtable[qd].live THEN Some(qtable[qd]) ELSE None

\* IoQueueTable::alloc: the descriptors that the table can issue next.
FreeQds == {qd \in QDescs : ~qtable[qd].live}

alloc(qd, queue) == [qtable EXCEPT ![qd] = queue]

\* IoQueueTable::free
free(qd) == [qtable EXCEPT ![qd] = NoQueue]

\* CatcollarLibOS::socket
cc_socket(domain, typ) ==
    /\ ~ccall.panic
    /\ IF domain # "AF_INET" \/ typ \notin {"SOCK_STREAM", "SOCK_DGRAM"}
       THEN /\ ccall' = CcReturn("socket", 0, ENOTSUP, 0)
            /\ UNCHANGED qtable
       ELSE \/ \E qd \in FreeQds :
                /\ qtable' = alloc(qd, CatcollarQueue(None))
                /\ ccall' = [CcReturn("socket", qd, 0, 0) EXCEPT !.os = TRUE]
            \/ /\ ccall' = [CcReturn("socket", 0, EACCES, 0) EXCEPT !.os = TRUE]
               /\ UNCHANGED qtable
    /\ UNCHANGED cctasks

\* An address check that stops at the first queue that carries an address.
addr_in_use_first_only(local) ==
    \E qd \in QDescs :
        /\ qtable[qd].live /\ qtable[qd].addr = Some(local)
        /\ \A other \in QDescs : other < qd => ~(qtable[other].live /\ qtable[other].addr # None)

\* Some live queue carries the address.
addr_in_use(local) == \E qd \in QDescs : qtable[qd].live /\ qtable[qd].addr = Some(local)

\* A bind that looks the descriptor up before it checks the port.
cc_bind_checks_descriptor_first(qd, local, os_ok) ==
    /\ ~ccall.panic
    /\ IF QueueOf(qd) = None
       THEN /\ ccall' = CcReturn("bind", qd, EBADF, 0)
            /\ UNCHANGED qtable
       ELSE IF port(local) = 0
       THEN /\ ccall' = CcReturn("bind", qd, ENOTSUP, 0)
            /\ UNCHANGED qtable
       ELSE IF addr_in_use(local)
       THEN /\ ccall' = CcReturn("bind", qd, EADDRINUSE, 0)
            /\ UNCHANGED qtable
       ELSE IF os_ok
       THEN /\ qtable' = [qtable EXCEPT ![qd].addr = Some(local), ![qd].bound = TRUE]
            /\ ccall' = [CcReturn("bind", qd, 0, 0) EXCEPT !.os = TRUE]
       ELSE /\ ccall' = [CcReturn("bind", qd, EACCES, 0) EXCEPT !.os = TRUE]
            /\ UNCHANGED qtable
    /\ UNCHANGED cctasks

\* CatcollarLibOS::bind; os_ok is the outcome of libc::bind.
cc_bind(qd, local, os_ok) ==
    /\ ~ccall.panic
    /\ IF port(local) = 0
       THEN /\ ccall' = CcReturn("bind", qd, ENOTSUP, 0)
            /\ UNCHANGED qtable
       ELSE IF QueueOf(qd) = None
       THEN /\ ccall' = CcReturn("bind", qd, EBADF, 0)
            /\ UNCHANGED qtable
       ELSE IF addr_in_use(local)
       THEN /\ ccall' = CcReturn("bind", qd, EADDRINUSE, 0)
            /\ UNCHANGED qtable
       ELSE IF os_ok
       THEN /\ qtable' = [qtable EXCEPT ![qd].addr = Some(local), ![qd].bound = TRUE]
            /\ ccall' = [CcReturn("bind", qd, 0, 0) EXCEPT !.os = TRUE]
       ELSE /\ ccall' = [CcReturn("bind", qd, EACCES, 0) EXCEPT !.os = TRUE]
            /\ UNCHANGED qtable
    /\ UNCHANGED cctasks

\* CatcollarLibOS::listen; os_ok is the outcome of libc::listen.
cc_listen(qd, arg, backlog, os_ok) ==
    /\ ~ccall.panic
    /\ IF ~((backlog > 0) /\ (backlog <= SOMAXCONN))
       THEN ccall' = [NoCCall EXCEPT !.op = "listen", !.qd = qd, !.arg = arg, !.backlog = backlog,
                                     !.panic = TRUE]
       ELSE IF QueueOf(qd) = None
       THEN ccall' = [CcReturn("listen", qd, EBADF, 0) EXCEPT !.arg = arg, !.backlog = backlog]
       ELSE ccall' = [CcReturn("listen", qd, IF os_ok THEN 0 ELSE EACCES, 0)
                        EXCEPT !.arg = arg, !.backlog = backlog, !.os = TRUE]
    /\ UNCHANGED <<qtable, cctasks>>

\* A listen that rounds a backlog of zero up to SOMAXCONN plus one.
listen_backlog_rounds_past(backlog) ==
    LET truncated == IF backlog > SOMAXCONN THEN SOMAXCONN ELSE backlog
    IN  IF truncated = 0 THEN SOMAXCONN + 1 ELSE truncated

\* NetworkLibOS::listen: the backlog that reaches the transport.
listen_backlog(backlog) ==
    LET truncated == IF backlog > SOMAXCONN THEN SOMAXCONN ELSE backlog
    IN  IF truncated = 0 THEN 1 ELSE truncated

\* NetworkLibOS::listen over the Catcollar libOS
listen(sockqd, backlog, os_ok) == cc_listen(sockqd, backlog, listen_backlog(backlog), os_ok)

\* Scheduler::insert: the id of the inserted task, 0 when the scheduler is
\* exhausted and returns None.
FreeCcTaskId ==
    IF \E t \in CcTaskIds : cctasks[t].status = "free"
    THEN CHOOSE t \in CcTaskIds :
             /\ cctasks[t].status = "free"
             /\ \A u \in CcTaskIds : cctasks[u].status = "free" => t <= u
    ELSE 0

\* A data-path call that inserts the task before it looks the descriptor up.
data_path_call_inserts_first(kind, qd) ==
    /\ IF FreeCcTaskId = 0
       THEN /\ ccall' = CcReturn(kind, qd, EAGAIN, 0)
            /\ UNCHANGED cctasks
       ELSE /\ cctasks' = [cctasks EXCEPT ![FreeCcTaskId] =
                              [NoTask EXCEPT !.status = "pending", !.kind = kind, !.qd = qd]]
            /\ ccall' = IF QueueOf(qd) = None
                        THEN CcReturn(kind, qd, EBADF, 0)
                        ELSE CcReturn(kind, qd, 0, FreeCcTaskId)
    /\ UNCHANGED qtable

\* The common part of accept, connect, async_close, push, pushto and pop:
\* look the descriptor up, box the coroutine, insert its task.
data_path_call(kind, qd) ==
    /\ IF QueueOf(qd) = None
       THEN /\ ccall' = CcReturn(kind, qd, EBADF, 0)
            /\ UNCHANGED cctasks
       ELSE IF FreeCcTaskId = 0
       THEN /\ ccall' = CcReturn(kind, qd, EAGAIN, 0)
            /\ UNCHANGED cctasks
       ELSE /\ cctasks' = [cctasks EXCEPT ![FreeCcTaskId] =
                              [NoTask EXCEPT !.status = "pending", !.kind = kind, !.qd = qd]]
            /\ ccall' = CcReturn(kind, qd, 0, FreeCcTaskId)
    /\ UNCHANGED qtable

\* CatcollarLibOS::accept
cc_accept(qd) == ~ccall.panic /\ data_path_call("accept", qd)

\* CatcollarLibOS::connect
cc_connect(qd) == ~ccall.panic /\ data_path_call("connect", qd)

\* CatcollarLibOS::async_close
cc_async_close(qd) == ~ccall.panic /\ data_path_call("close", qd)

\* The check of the buffer that precedes the lookup in push and pushto.
push_call(kind, qd, len) ==
    /\ ~ccall.panic
    /\ IF len = 0
       THEN /\ ccall' = CcReturn(kind, qd, EINVAL, 0)
            /\ UNCHANGED <<qtable, cctasks>>
       ELSE data_path_call(kind, qd)

\* CatcollarLibOS::push
cc_push(qd, len) == push_call("push", qd, len)

\* CatcollarLibOS::pushto
cc_pushto(qd, len) == push_call("pushto", qd, len)

\* CatcollarLibOS::pop
cc_pop(qd) == ~ccall.panic /\ data_path_call("pop", qd)

\* CatcollarLibOS::close; os_ok is the outcome of libc::close. The tasks of
\* the queue are left as they are.
cc_close(qd, os_ok) ==
    /\ ~ccall.panic
    /\ IF QueueOf(qd) = None
       THEN /\ ccall' = CcReturn("close", qd, EBADF, 0)
            /\ UNCHANGED qtable
       ELSE IF ~os_ok
       THEN /\ ccall' = [CcReturn("close", qd, EACCES, 0) EXCEPT !.os = TRUE]
            /\ UNCHANGED qtable
       ELSE /\ qtable' = free(qd)
            /\ ccall' = [CcReturn("close", qd, 0, 0) EXCEPT !.os = TRUE]
    /\ UNCHANGED cctasks

\* The OperationResult of a coroutine whose system call succeeded.
OkResult(kind) ==
    CASE kind = "connect" -> OperationResult("Connect")
      [] kind = "push"    -> OperationResult("Push")
      [] kind = "pushto"  -> OperationResult("Push")
      [] kind = "pop"     -> OperationResult("Pop")
      [] kind = "close"   -> OperationResult("Close")

Finish(t, result) == [cctasks EXCEPT ![t].status = "completed", ![t].result = result]

\* do_accept, do_connect, do_close, do_push, do_pushto, do_pop: the poll of
\* the scheduler in which the coroutine of task t returns. A coroutine whose
\* yielder was woken with an error returns it; otherwise the outcome is that of
\* its system call.
cc_poll(t, os_ok, addr) ==
    LET task == cctasks[t] IN
    /\ ~ccall.panic
    /\ task.status = "pending"
    /\ IF task.wake # 0
       THEN /\ cctasks' = Finish(t, Failed(task.wake))
            /\ UNCHANGED qtable
       ELSE IF ~os_ok
       THEN /\ cctasks' = Finish(t, Failed(ECONNRESET))
            /\ UNCHANGED qtable
       ELSE IF task.kind = "accept"
       THEN \E new_qd \in FreeQds :
                /\ qtable' = alloc(new_qd, CatcollarQueue(Some(addr)))
                /\ cctasks' = Finish(t, [OperationResult("Accept") EXCEPT
                                            !.new_qd = new_qd, !.addr = Some(addr)])
       ELSE IF task.kind = "close"
       THEN /\ qtable' = free(task.qd)
            /\ cctasks' = Finish(t, OkResult(task.kind))
       ELSE /\ cctasks' = Finish(t, OkResult(task.kind))
            /\ UNCHANGED qtable
    /\ ccall' = CcReturn("poll", 0, 0, 0)

\* A pack_result that reports every result with a return code of zero.
pack_result_hides_errno(result, qd, qt, sga_ok) ==
    [qr_opcode |-> IF result.tag = "Failed" \/ (result.tag = "Pop" /\ ~sga_ok)
                   THEN "FAILED" ELSE result.tag,
     qr_qd |-> qd, qr_qt |-> qt, qr_ret |-> 0]

\* pack_result (the standalone function); sga_ok tells whether into_sgarray
\* returned Ok for the bytes of a Pop.
pack_result(result, qd, qt, sga_ok) ==
    IF result.tag = "Failed"
    THEN [qr_opcode |-> "FAILED", qr_qd |-> qd, qr_qt |-> qt, qr_ret |-> result.errno]
    ELSE IF result.tag = "Pop" /\ ~sga_ok
    THEN [qr_opcode |-> "FAILED", qr_qd |-> qd, qr_qt |-> qt, qr_ret |-> EINVAL]
    ELSE [qr_opcode |-> result.tag, qr_qd |-> qd, qr_qt |-> qt, qr_ret |-> 0]

\* IoUringRuntime::into_sgarray hands the buffer to the caller and has no
\* failure of its own.
into_sgarray_ok == TRUE

\* CatcollarLibOS::pack_result with take_result: the completed task of token
\* qt is removed from the scheduler and its result is packed.
cc_pack_result(qt) ==
    /\ ~ccall.panic
    /\ cctasks[qt].status = "completed"
    /\ cctasks' = [cctasks EXCEPT ![qt] = NoTask]
    /\ ccall' = [CcReturn("pack_result", 0, 0, qt) EXCEPT
                    !.qr = pack_result(cctasks[qt].result, cctasks[qt].qd, qt, into_sgarray_ok)]
    /\ UNCHANGED qtable

CatcollarNext ==
    \/ \E domain \in {"AF_INET", "AF_INET6"} : \E typ \in {"SOCK_STREAM", "SOCK_DGRAM", "SOCK_RAW"} :
          cc_socket(domain, typ) /\ UNCHANGED <<povars, cmvars, mrvars, pfvars>>
    \/ \E qd \in QDescs : \E local \in SocketAddrs : \E os_ok \in BOOLEAN :
          cc_bind(qd, local, os_ok) /\ UNCHANGED <<povars, cmvars, mrvars, pfvars>>
    \/ \E qd \in QDescs : \E backlog \in 0..MaxBacklogArg : \E os_ok \in BOOLEAN :
          listen(qd, backlog, os_ok) /\ UNCHANGED <<povars, cmvars, mrvars, pfvars>>
    \/ \E qd \in QDescs : cc_accept(qd) /\ UNCHANGED <<povars, cmvars, mrvars, pfvars>>
    \/ \E qd \in QDescs : cc_connect(qd) /\ UNCHANGED <<povars, cmvars, mrvars, pfvars>>
    \/ \E qd \in QDescs : \E os_ok \in BOOLEAN : cc_close(qd, os_ok) /\ UNCHANGED <<povars, cmvars, mrvars, pfvars>>
    \/ \E qd \in QDescs : cc_async_close(qd) /\ UNCHANGED <<povars, cmvars, mrvars, pfvars>>
    \/ \E qd \in QDescs : \E len \in 0..MaxSgaLen : cc_push(qd, len) /\ UNCHANGED <<povars, cmvars, mrvars, pfvars>>
    \/ \E qd \in QDescs : \E len \in 0..MaxSgaLen : cc_pushto(qd, len) /\ UNCHANGED <<povars, cmvars, mrvars, pfvars>>
    \/ \E qd \in QDescs : cc_pop(qd) /\ UNCHANGED <<povars, cmvars, mrvars, pfvars>>
    \/ \E t \in CcTaskIds : \E os_ok \in BOOLEAN : \E addr \in SocketAddrs \ {0} :
          cc_poll(t, os_ok, addr) /\ UNCHANGED <<povars, cmvars, mrvars, pfvars>>
    \/ \E qt \in CcTaskIds : cc_pack_result(qt) /\ UNCHANGED <<povars, cmvars, mrvars, pfvars>>

CatcollarInitial == Init /\ max_backlog = MaxBacklog

CatcollarSpec == CatcollarInitial /\ [][CatcollarNext]_vars

\* A process runs one libOS, the Catcollar libOS or the memory queues, so the
\* calls of one are made while the other is as it was created.
LibOSNext ==
    \/ CatmemInit /\ CatcollarNext
    \/ CatcollarInit /\ CatmemNext

LibOSSpec == CatcollarInitial /\ [][LibOSNext]_vars

-----------------------------------------------------------------------------
\* PosixRuntime as MemoryRuntime (catnap/runtime.rs:90-161)

MReturn(op, ret) == [NoMCall EXCEPT !.op = op, !.ret = ret]

\* DataBuffer::new: a buffer has at least one byte and at most BufferLenMax.
DataBuffer_new_ok(size) == size > 0 /\ size <= BufferLenMax

\* The heap buffers that an allocation can return.
FreeBufs == {b \in BufIds : heap[b].status = "free"}

\* DataBuffer::into_raw: the buffer leaves the management of its DataBuffer.
into_raw(b) == [heap EXCEPT ![b].status = "raw"]

\* DataBuffer::from_raw_parts and the drop of its result: the buffer is freed.
from_raw_parts(b) == [heap EXCEPT ![b] = NoBuffer]

\* PosixRuntime::into_sgarray of the DataBuffer that owns heap buffer b
into_sgarray(b) ==
    /\ heap[b].status = "owned"
    /\ LET len == heap[b].len
           sgaseg == dmtr_sgaseg_t(b, as_u32(len))
       IN  /\ heap' = into_raw(b)
           /\ sgas' = sgas \cup {dmtr_sgarray_t(1, sgaseg)}
           /\ mcall' = [MReturn("into_sgarray", 0) EXCEPT !.sga = dmtr_sgarray_t(1, sgaseg)]

\* PosixRuntime::alloc_sgarray
alloc_sgarray(size) ==
    IF ~DataBuffer_new_ok(size)
    THEN /\ mcall' = MReturn("alloc_sgarray", EINVAL)
         /\ UNCHANGED <<heap, sgas>>
    ELSE \E b \in FreeBufs :
            LET sgaseg == dmtr_sgaseg_t(b, as_u32(size)) IN
            /\ heap' = [heap EXCEPT ![b] = [status |-> "raw", len |-> size]]
            /\ sgas' = sgas \cup {dmtr_sgarray_t(1, sgaseg)}
            /\ mcall' = [MReturn("alloc_sgarray", 0) EXCEPT !.sga = dmtr_sgarray_t(1, sgaseg)]

\* A free_sgarray that reclaims the buffer of the first segment before it
\* checks the number of segments.
free_sgarray_reclaims_first(sga) ==
    LET b == sga.sga_segs[1].sgaseg_buf IN
    /\ heap[b].status = "raw"
    /\ heap' = from_raw_parts(b)
    /\ sgas' = {d \in sgas : d.sga_segs[1].sgaseg_buf # b}
    /\ mcall' = [MReturn("free_sgarray", IF sga.sga_numsegs # 1 THEN EINVAL ELSE 0)
                    EXCEPT !.reclaimed = {b}]

\* PosixRuntime::free_sgarray
free_sgarray(sga) ==
    IF sga.sga_numsegs # 1
    THEN /\ mcall' = MReturn("free_sgarray", EINVAL)
         /\ UNCHANGED <<heap, sgas>>
    ELSE LET b == sga.sga_segs[1].sgaseg_buf IN
         /\ heap[b].status = "raw"
         /\ heap' = from_raw_parts(b)
         /\ sgas' = sgas \ {sga}
         /\ mcall' = [MReturn("free_sgarray", 0) EXCEPT !.reclaimed = {b}]

\* PosixRuntime::clone_sgarray: DataBuffer::from_slice copies the segment into
\* a buffer of its own.
clone_sgarray(sga) ==
    IF sga.sga_numsegs # 1
    THEN /\ mcall' = MReturn("clone_sgarray", EINVAL)
         /\ UNCHANGED <<heap, sgas>>
    ELSE LET b == sga.sga_segs[1].sgaseg_buf IN
         \E c \in FreeBufs :
            /\ heap' = [heap EXCEPT ![c] = [status |-> "owned", len |-> sga.sga_segs[1].sgaseg_len]]
            /\ mcall' = [MReturn("clone_sgarray", 0) EXCEPT !.dbuf = c, !.read = {b}]
            /\ UNCHANGED sgas

\* The drop of a DataBuffer frees its heap buffer.
drop(b) ==
    /\ heap[b].status = "owned"
    /\ heap' = [heap EXCEPT ![b] = NoBuffer]
    /\ mcall' = MReturn("drop", 0)
    /\ UNCHANGED sgas

\* The scatter-gather arrays that the application passes: the ones it holds,
\* as they are or with another number of segments written into them.
Passed == sgas \cup {[d EXCEPT !.sga_numsegs = n] : d \in sgas, n \in {0, 2}}

MemoryNext ==
    \/ \E b \in BufIds : into_sgarray(b) /\ UNCHANGED <<povars, cmvars, ccvars, pfvars>>
    \/ \E size \in Sizes : alloc_sgarray(size) /\ UNCHANGED <<povars, cmvars, ccvars, pfvars>>
    \/ \E sga \in Passed : free_sgarray(sga) /\ UNCHANGED <<povars, cmvars, ccvars, pfvars>>
    \/ \E sga \in Passed : clone_sgarray(sga) /\ UNCHANGED <<povars, cmvars, ccvars, pfvars>>
    \/ \E b \in BufIds : drop(b) /\ UNCHANGED <<povars, cmvars, ccvars, pfvars>>

MemoryInitial == Init /\ max_backlog = MaxBacklog

MemorySpec == MemoryInitial /\ [][MemoryNext]_vars

-----------------------------------------------------------------------------
\* PopFuture (catcollar/futures/pop.rs)

\* usize subtraction as a build without overflow checks computes it. The
\* wrapped difference 2^64 - (b - a) is kept as 2^30 - (b - a): like it, it
\* exceeds the length of every buffer.
UsizeModulus == 2^30

wrapping_sub(a, b) == IF a >= b THEN a - b ELSE UsizeModulus - (b - a)

\* DemiBuffer::trim: the buffer without its last nbytes bytes; it fails when
\* the buffer has fewer bytes.
trim_ok(buf, nbytes) == nbytes <= Len(buf)

trim(buf, nbytes) == SubSeq(buf, 1, Len(buf) - nbytes)

\* PopFuture::new: the future of a request that the runtime has accepted.
PopFuture_new(buf) ==
    /\ ~popfut.live
    /\ popfut' = [NoPopFuture EXCEPT !.live = TRUE, !.buf = buf, !.request = "in_progress"]

\* The request completes in the runtime with a size.
Completion(size) ==
    /\ popfut.live /\ popfut.request = "in_progress"
    /\ popfut' = [popfut EXCEPT !.request = "completed", !.size = size]

\* The runtime loses the request: peek fails from now on.
PeekFails(errno) ==
    /\ popfut.live /\ popfut.request = "in_progress"
    /\ popfut' = [popfut EXCEPT !.request = "failed", !.errno = errno]

\* PopFuture::poll. checked tells whether the build checks arithmetic
\* overflow: the subtraction of a size beyond the length of the buffer panics
\* when it does and wraps when it does not.
PopFuture_poll(checked) ==
    /\ popfut.live
    /\ popfut.out.tag \in {"none", "Pending"}
    /\ popfut.panic = "none"
    /\ CASE popfut.request = "completed" /\ popfut.size >= 0 ->
              IF checked /\ popfut.size > Len(popfut.buf)
              THEN popfut' = [popfut EXCEPT !.panic = "attempt to subtract with overflow"]
              ELSE LET trim_size == wrapping_sub(Len(popfut.buf), popfut.size) IN
                   IF trim_ok(popfut.buf, trim_size)
                   THEN popfut' = [popfut EXCEPT !.out = ReadyOk(trim(popfut.buf, trim_size)),
                                                 !.woken = FALSE]
                   ELSE popfut' = [popfut EXCEPT !.out = ReadyErr(EINVAL), !.woken = FALSE]
         [] popfut.request = "in_progress" ->
              popfut' = [popfut EXCEPT !.out = Pending, !.woken = TRUE]
         [] popfut.request = "completed" /\ popfut.size < 0 ->
              popfut' = [popfut EXCEPT !.out = ReadyErr(-popfut.size), !.woken = FALSE]
         [] popfut.request = "failed" ->
              popfut' = [popfut EXCEPT !.out = ReadyErr(popfut.errno), !.woken = FALSE]

\* The future is dropped once it is ready.
PopFuture_drop ==
    /\ popfut.live
    /\ popfut.out.tag \in {"Ok", "Err"}
    /\ popfut' = NoPopFuture

PopFutureNext ==
    \/ \E buf \in RecvBufs : PopFuture_new(buf) /\ UNCHANGED <<povars, cmvars, ccvars, mrvars>>
    \/ \E size \in CompletionSizes : Completion(size) /\ UNCHANGED <<povars, cmvars, ccvars, mrvars>>
    \/ PeekFails(EBADF) /\ UNCHANGED <<povars, cmvars, ccvars, mrvars>>
    \/ \E checked \in BOOLEAN : PopFuture_poll(checked) /\ UNCHANGED <<povars, cmvars, ccvars, mrvars>>
    \/ PopFuture_drop /\ UNCHANGED <<povars, cmvars, ccvars, mrvars>>

PopFutureInitial == Init /\ max_backlog = MaxBacklog

PopFutureSpec == PopFutureInitial /\ [][PopFutureNext]_vars

-----------------------------------------------------------------------------
\* Properties of the passive-open socket.

\* The remotes of the Ok entries of ready, in order.
OkIndexes == {i \in 1..Len(ready) : ready[i].ok}

ReadyRemotes == {ready[i].remote : i \in OkIndexes}

InflightLen == Cardinality(DOMAIN inflight)

\* C1 (I2, backlog bound): right after a receive call that returned Ok, the
\* inflight entries and the ready entries (Ok and Err) together are at most
\* max_backlog.
C1_BacklogBound ==
    (call.op = "receive" /\ call.result = "Ok") => InflightLen + Len(ready) <= max_backlog

\* C2 (I3, endpoint disjointness): no remote is a key of inflight and a member
\* of ready.endpoints at once.
C2_EndpointDisjointness == DOMAIN inflight \cap endpoints = {}

\* A connection waits in ready while another one is half open.
C2_Witness == endpoints # {} /\ DOMAIN inflight # {}

\* C3: endpoints is exactly the set of remotes of the Ok entries of ready, no
\* two Ok entries share a remote, and neither the assert of push_ok nor the
\* assert of poll has failed.
C3_EndpointsMirrorReady ==
    /\ endpoints = ReadyRemotes
    /\ \A i, j \in OkIndexes : ready[i].remote = ready[j].remote => i = j
    /\ panic \notin {"push_ok", "poll"}

\* poll_accept handed over an Ok entry while an error and another Ok entry wait.
C3_Witness ==
    /\ call.op = "poll_accept" /\ call.entry.ok
    /\ \E i \in 1..Len(ready) : ~ready[i].ok
    /\ OkIndexes # {}

\* The live background tasks of a remote.
AliveTasks(remote) == {t \in TaskIds : tasks[t].status = "alive" /\ tasks[t].remote = remote}

\* C4: every key of inflight has exactly one background retry task, and that
\* task is alive.
C4_InflightHasLiveTask ==
    \A remote \in DOMAIN inflight :
        /\ Cardinality(AliveTasks(remote)) = 1
        /\ tasks[inflight[remote].handle].status = "alive"

\* The final ACK of a handshake: the segment acknowledges local_isn + 1 of a
\* remote that is in inflight.
IsFinalAck(remote, header) ==
    /\ remote \in DOMAIN inflight
    /\ header.ack
    /\ header.ack_num = SeqAdd(inflight[remote].local_isn, 1)

\* What the final ACK has to do, as a relation between two states.
Completes(remote) ==
    /\ remote \notin DOMAIN inflight'
    /\ tasks'[inflight[remote].handle].status # "alive"
    /\ Len(ready') = Len(ready) + 1
    /\ SubSeq(ready', 1, Len(ready)) = ready
    /\ ready'[Len(ready')].ok
    /\ ready'[Len(ready')].remote = remote
    /\ ready'[Len(ready')].receive_next = SeqAdd(inflight[remote].remote_isn, 1)
    /\ ready'[Len(ready')].send_next = SeqAdd(inflight[remote].local_isn, 1)
    /\ waker => (~waker' /\ accept_pc' = "runnable")

\* poll_accept has handed over the control block of a remote.
Accepted(remote) ==
    call.op = "poll_accept" /\ call.result = "Ready" /\ call.entry.ok /\ call.entry.remote = remote

\* C5 (handshake completion): the final ACK removes the remote from inflight,
\* deschedules its retry task, appends one Ok control block with
\* receive_next = remote_isn + 1 and send_next = local_isn + 1 and wakes the
\* parked accept; poll_accept eventually returns that control block.
C5_HandshakeCompletion ==
    /\ [][\A remote \in Remotes : \A header \in Headers(remote) :
            (IsFinalAck(remote, header) /\ receive(remote, header)) => Completes(remote)]_vars
    /\ \A remote \in Remotes : (remote \in ReadyRemotes) ~> Accepted(remote)

\* poll_accept has handed over an ETIMEDOUT error.
TimedOut ==
    call.op = "poll_accept" /\ call.result = "Ready" /\ ~call.entry.ok /\ call.entry.errno = "ETIMEDOUT"

\* receive got the final ACK of the connection of task t and aborted on it.
AckHandled(t) ==
    /\ tasks[t].status = "alive"
    /\ call.op = "receive" /\ call.result = "panic" /\ call.remote = tasks[t].remote

\* C6 (handshake timeout): the last iteration of the retry coroutine appends
\* ETIMEDOUT to ready, and an admitted SYN whose ACK never comes leads to an
\* accept that resolves with ETIMEDOUT.
C6_HandshakeTimeout ==
    /\ [][\A t \in TaskIds :
            (tasks[t].status = "alive" /\ tasks'[t].status = "completed")
                => (tasks[t].iter + 1 = HandshakeRetries
                    /\ ready' = Append(ready, [ok |-> FALSE, errno |-> "ETIMEDOUT"]))]_vars
    /\ \A t \in TaskIds :
            (tasks[t].status = "alive")
                ~> (tasks[t].status = "descheduled" \/ AckHandled(t) \/ TimedOut)

\* A valid SYN of a remote that is in neither inflight nor ready.endpoints.
IsNewSyn(remote, header) ==
    /\ header.syn /\ ~header.ack /\ ~header.rst
    /\ remote \notin DOMAIN inflight
    /\ remote \notin endpoints

\* C7 (backlog admission): a valid SYN of a new remote is refused with
\* ECONNREFUSED exactly when inflight.len() + ready.len() >= max_backlog, and a
\* refused SYN leaves inflight, ready and the background tasks as they were.
C7_BacklogAdmission ==
    [][\A remote \in Remotes : \A header \in Headers(remote) :
        (IsNewSyn(remote, header) /\ receive(remote, header)) =>
            /\ (call'.result = "ECONNREFUSED") <=> (InflightLen + Len(ready) >= max_backlog)
            /\ (call'.result = "ECONNREFUSED") =>
                    UNCHANGED <<inflight, ready, endpoints, waker, tasks>>]_vars

\* The third of three SYNs is refused by a listener of backlog 2; the first two
\* remain inflight.
C7_Witness ==
    /\ call.op = "receive" /\ call.result = "ECONNREFUSED"
    /\ max_backlog = 2
    /\ InflightLen = 2
    /\ ready = << >>

-----------------------------------------------------------------------------
\* Properties of the memory queue.

\* The producer closed the push end after all its pushes had completed, it has
\* pushed nothing since, and the consumer has not closed the pop end.
PushedThenClosed == hist.closed /\ hist.clean /\ state["PopOnly"].current # "Closed"

\* C8 (ring round trip, R1): when the bytes s were pushed through do_push on
\* the push end and that end was then closed, the buffers that successive
\* do_pop calls on the pop end return, up to and including the first result
\* with eof = true, concatenate to s, and a result with eof = true is
\* eventually returned.
C8_RingRoundTrip ==
    /\ [](PushedThenClosed /\ hist.eof => hist.received = hist.sent_at_close)
    /\ PushedThenClosed ~> (hist.eof \/ ~PushedThenClosed)

\* A turn of do_pop on the pop end that calls try_pop.
TryPopCalled == \E t \in OpIds : do_pop("PopOnly", t)

\* C9 (EOF monotonicity, I4): once a try_pop on the pop end has returned
\* eof = true, every later try_pop on it returns eof = true without an error:
\* never a data byte and never an empty result that is not the end of file.
C9_EofMonotonicity ==
    [][hist.try_eof /\ TryPopCalled => qcall'.eof /\ qcall'.result = "Ok"]_vars

\* C10 (cancel completeness, I5): every push or pop that a close of its queue
\* found pending, suspended at a yield or inserted and not yet polled,
\* eventually completes, and it completes with ECANCELED (a success counts
\* only when it was reached before the close, and then the close does not
\* find the operation pending).
C10_CancelCompleteness ==
    /\ [](\A side \in Sides : \A t \in OpIds :
            ops[side][t].cancelled /\ ops[side][t].status = "completed"
                => ops[side][t].result = "ECANCELED")
    /\ \A side \in Sides : \A t \in OpIds :
            ops[side][t].cancelled ~> ops[side][t].status = "completed"

\* A synchronous close that returned Ok.
CloseReturnsOk(side) == close(side) /\ qcall' = NoQCall

\* The operations that cancel_pending_ops has to wake: registered and not
\* completed.
Cancellable(side) == {t \in pending_ops[side] : ops[side][t].status # "completed"}

\* C11 (synchronous close): close prepares the close, writes the end-of-file
\* marker, commits, marks the endpoint Closed, commits, and only then cancels.
\* After a close that returned Ok the endpoint is Closed, the marker is the
\* last entry of the ring, pending_ops is empty, every registered operation
\* that had not completed was woken with ECANCELED, and no other operation
\* was touched; a close that failed at an earlier step wrote and cancelled
\* nothing.
C11_SyncClose ==
    [][\A side \in Sides :
        /\ CloseReturnsOk(side) =>
              /\ state'[side] = [current |-> "Closed", prepared |-> "none"]
              /\ ring' = Append(ring, Eof)
              /\ pending_ops'[side] = {}
              /\ \A t \in OpIds :
                    IF t \in Cancellable(side)
                    THEN ops'[side][t] = [ops[side][t] EXCEPT !.wake = "ECANCELED",
                                                              !.cancelled = TRUE]
                    ELSE ops'[side][t] = ops[side][t]
        /\ (close(side) /\ qcall' # NoQCall) => UNCHANGED <<ring, pending_ops, ops>>]_vars

\* A close found a suspended operation and woke it: the endpoint is Closed,
\* its marker is in the ring and nothing is registered any more.
C11_Witness ==
    \E side \in Sides : \E t \in OpIds :
        /\ state[side].current = "Closed"
        /\ ring # << >> /\ ring[Len(ring)] = Eof
        /\ pending_ops[side] = {}
        /\ ops[side][t].status = "yielded"
        /\ ops[side][t].wake = "ECANCELED"

\* The coroutine of do_async_close returns in this step.
AsyncCloseCompletes(side) == do_async_close(side) /\ closer'[side].status = "completed"

\* C12 (asynchronous close): when the coroutine of do_async_close completes,
\* every operation that is still registered on its queue and has not completed
\* is woken with an error, so that none of them stays suspended.
C12_AsyncCloseCancels ==
    [][\A side \in Sides :
        AsyncCloseCompletes(side) =>
            \A t \in Cancellable(side) : ops'[side][t].wake # "none"]_vars

\* C13 (sidedness): every do_push on the pop end, whatever its buffer (the
\* empty buffer included), completes with EINVAL and writes nothing to the
\* ring; every do_pop on the push end completes with EINVAL and consumes
\* nothing.
C13_Sidedness ==
    /\ [](\A t \in OpIds :
            /\ (ops["PopOnly"][t].kind = "push" /\ ops["PopOnly"][t].status = "completed")
                    => ops["PopOnly"][t].result = "EINVAL"
            /\ (ops["PushOnly"][t].kind = "pop" /\ ops["PushOnly"][t].status = "completed")
                    => ops["PushOnly"][t].result = "EINVAL")
    /\ [][\A t \in OpIds :
            (do_push("PopOnly", t) \/ do_pop("PushOnly", t)) => ring' = ring]_vars

-----------------------------------------------------------------------------
\* Properties of the Catcollar libOS.

\* The accept, connect, push, pushto and pop tasks of a queue that have not
\* completed.
InFlight(qd) ==
    {t \in CcTaskIds : /\ cctasks[t].status = "pending"
                       /\ cctasks[t].qd = qd
                       /\ cctasks[t].kind \in {"accept", "connect", "push", "pushto", "pop"}}

\* close, or the coroutine of async_close, removes the queue of qd in this step.
QueueRemoved(qd) ==
    /\ qtable[qd].live /\ ~qtable'[qd].live
    /\ \/ \E os_ok \in BOOLEAN : cc_close(qd, os_ok)
       \/ \E t \in CcTaskIds : \E os_ok \in BOOLEAN : \E addr \in SocketAddrs :
             cctasks[t].kind = "close" /\ cc_poll(t, os_ok, addr)

\* C14 (cancellation on close of a socket queue): when close(qd), or the
\* completion of async_close, removes a queue, the yielder of each of its
\* in-flight accept, connect, push, pushto and pop tasks is woken with an
\* error.
C14_CloseCancelsTasks ==
    [][\A qd \in QDescs :
        QueueRemoved(qd) => \A t \in InFlight(qd) : cctasks'[t].wake # 0]_vars

\* C15 (bind to port 0): bind with port 0 returns ENOTSUP for every queue
\* descriptor, known to the queue table or not, without calling the operating
\* system, and leaves the queue table with every address as it was.
C15_BindPortZero ==
    [][\A qd \in QDescs : \A local \in SocketAddrs : \A os_ok \in BOOLEAN :
        (port(local) = 0 /\ cc_bind(qd, local, os_ok)) =>
            /\ ccall'.ret = ENOTSUP
            /\ ~ccall'.os
            /\ qtable' = qtable]_vars

\* bind to port 0 on a descriptor that the table does not hold was refused
\* with ENOTSUP while another queue is bound.
C15_Witness ==
    /\ ccall.op = "bind" /\ ccall.ret = ENOTSUP
    /\ ~qtable[ccall.qd].live
    /\ \E qd \in QDescs : qtable[qd].live /\ qtable[qd].addr # None

\* The live queues that carry an address.
Holders(local) == {qd \in QDescs : qtable[qd].live /\ qtable[qd].addr = Some(local)}

CallOn(qd) ==
    \/ \E backlog \in 0..MaxBacklogArg : \E os_ok \in BOOLEAN : listen(qd, backlog, os_ok)
    \/ cc_accept(qd)
    \/ cc_connect(qd)
    \/ \E os_ok \in BOOLEAN : cc_close(qd, os_ok)
    \/ cc_async_close(qd)
    \/ cc_pop(qd)
    \/ \E local \in SocketAddrs \ {0} : \E os_ok \in BOOLEAN : cc_bind(qd, local, os_ok)
    \/ \E len \in 1..MaxSgaLen : cc_push(qd, len) \/ cc_pushto(qd, len)

\* C17 (unknown descriptor): every such call on a descriptor that is not in
\* the queue table returns EBADF and no token, inserts no task and leaves the
\* queue table as it was; a close that returned Ok has removed the descriptor
\* from the table, so that the calls on it return EBADF until the table issues
\* it again.
C17_UnknownDescriptor ==
    /\ [][\A qd \in QDescs :
            (~qtable[qd].live /\ CallOn(qd)) =>
                /\ ccall'.ret = EBADF /\ ccall'.qt = 0
                /\ UNCHANGED <<qtable, cctasks>>]_vars
    /\ [][\A qd \in QDescs :
            ((\E os_ok \in BOOLEAN : cc_close(qd, os_ok)) /\ ccall'.ret = 0)
                => ~qtable'[qd].live]_vars

\* A descriptor was closed while a task on it was in flight, and a later pop
\* on it was refused with EBADF.
C17_Witness ==
    /\ ccall.op = "pop" /\ ccall.ret = EBADF
    /\ ~qtable[ccall.qd].live
    /\ \E t \in CcTaskIds : cctasks[t].status = "pending" /\ cctasks[t].qd = ccall.qd

\* A data-path call of the Catcollar libOS that reaches the scheduler: accept,
\* connect, async_close, pop, push or pushto with a buffer that is not empty,
\* on a descriptor of the queue table.
DataPathCallOn(qd) ==
    /\ qtable[qd].live
    /\ \/ cc_accept(qd)
       \/ cc_connect(qd)
       \/ cc_async_close(qd)
       \/ cc_pop(qd)
       \/ \E len \in 1..MaxSgaLen : cc_push(qd, len) \/ cc_pushto(qd, len)

\* A push or a pop of a memory queue.
MemoryCallOn(side) ==
    \/ \E n \in 0..MaxBufLen : push(side, n)
    \/ \E size \in 1..MaxPopSize : pop(side, size)

\* C18 (scheduler admission failure): when the scheduler refuses the task of
\* a Catcollar data-path call, the call returns EAGAIN and no queue token and
\* leaves the queue table and the scheduler as they were; when the spawn of a
\* push or pop of a memory queue fails, the call returns the error and leaves
\* pending_ops as it was.
C18_AdmissionFailure ==
    /\ [][\A qd \in QDescs :
            (FreeCcTaskId = 0 /\ DataPathCallOn(qd)) =>
                /\ ccall'.ret = EAGAIN /\ ccall'.qt = 0
                /\ UNCHANGED <<qtable, cctasks>>]_vars
    /\ [][\A side \in Sides :
            (FreeOpId(side) = 0 /\ MemoryCallOn(side)) =>
                /\ qcall'.result = "insert failed"
                /\ UNCHANGED <<pending_ops, ops>>]_vars

\* A data-path call on a descriptor of the table was refused with EAGAIN
\* while every slot of the scheduler holds a task.
C18_Witness ==
    /\ ccall.ret = EAGAIN /\ ccall.qt = 0
    /\ qtable[ccall.qd].live
    /\ \A t \in CcTaskIds : cctasks[t].status # "free"

\* The opcode of a completion that reports the success of an operation.
Opcode(kind) ==
    CASE kind = "accept"  -> "Accept"
      [] kind = "connect" -> "Connect"
      [] kind = "push"    -> "Push"
      [] kind = "pushto"  -> "Push"
      [] kind = "pop"     -> "Pop"
      [] kind = "close"   -> "Close"

Min(a, b) == IF a < b THEN a ELSE b

Max(a, b) == IF a > b THEN a ELSE b

\* C20 (backlog normalisation): for every backlog b that a caller gives to
\* NetworkLibOS::listen, the transport receives min(max(b, 1), SOMAXCONN), a
\* value of 1..SOMAXCONN, and the assertion on the backlog in
\* CatcollarLibOS::listen does not fail. The call record of a listen holds the
\* caller's backlog (arg) and the one that reached the transport (backlog).
C20_BacklogNormalisation ==
    ccall.op = "listen" =>
        /\ ccall.backlog = Min(Max(ccall.arg, 1), SOMAXCONN)
        /\ ccall.backlog \in 1..SOMAXCONN
        /\ ~ccall.panic

\* A listen with a backlog of zero reached the operating system with a
\* backlog of one.
C20_Witness ==
    /\ ccall.op = "listen" /\ ccall.os /\ ccall.ret = 0
    /\ ccall.arg = 0 /\ ccall.backlog = 1

-----------------------------------------------------------------------------
\* More properties of the passive-open socket.

\* The three cases in which a segment is malformed for the state of its remote.
ExpectedBadMessage(remote, header) ==
    \/ remote \in DOMAIN inflight /\ ~header.ack
    \/ remote \in DOMAIN inflight /\ header.ack_num # SeqAdd(inflight[remote].local_isn, 1)
    \/ /\ remote \notin DOMAIN inflight
       /\ remote \notin endpoints
       /\ ~(header.syn /\ ~header.ack /\ ~header.rst)

\* C22 (EBADMSG): receive returns EBADMSG exactly when the remote is in
\* inflight and the segment has no ACK flag, or the remote is in inflight and
\* ack_num is not local_isn + 1, or the remote is in neither inflight nor
\* ready.endpoints and the segment is not a SYN without ACK and RST; the flags
\* of a segment for a new connection are checked before the backlog, so that a
\* segment that is not a SYN gets EBADMSG from a full listener too.
C22_BadMessage ==
    [][\A remote \in Remotes : \A header \in Headers(remote) :
        receive(remote, header) =>
            /\ (call'.result = "EBADMSG") <=> ExpectedBadMessage(remote, header)
            /\ (/\ remote \notin DOMAIN inflight
                /\ remote \notin endpoints
                /\ ~(header.syn /\ ~header.ack /\ ~header.rst)
                /\ InflightLen + Len(ready) >= max_backlog) => call'.result = "EBADMSG"]_vars

\* A segment of a new remote was refused with EBADMSG by a listener whose
\* backlog is full.
C22_Witness ==
    /\ call.op = "receive" /\ call.result = "EBADMSG"
    /\ call.remote \notin DOMAIN inflight
    /\ call.remote \notin endpoints
    /\ InflightLen + Len(ready) >= max_backlog
    /\ InflightLen > 0 /\ Len(ready) > 0

\* C23 (duplicate drop): a segment with any flags from a remote that is in
\* ready.endpoints makes receive return Ok and leaves inflight, ready,
\* endpoints, the parked waker and the background tasks as they were.
C23_DuplicateDrop ==
    [][\A remote \in Remotes : \A header \in Headers(remote) :
        (remote \in endpoints /\ receive(remote, header)) =>
            /\ call'.result = "Ok"
            /\ UNCHANGED <<inflight, ready, endpoints, waker, tasks, accept_pc>>]_vars

\* A segment of a remote that waits in ready was dropped: the last entry of
\* ready is not the one of that remote, so the segment was not its final ACK.
C23_Witness ==
    /\ call.op = "receive" /\ call.result = "Ok"
    /\ call.remote \in endpoints
    /\ Len(ready) >= 2
    /\ ready[Len(ready)].ok /\ ready[Len(ready)].remote # call.remote

\* push_ok or push_err appends one entry in this step: the waker that was
\* parked is taken and woken.
Pushed ==
    /\ Len(ready') = Len(ready) + 1
    /\ SubSeq(ready', 1, Len(ready)) = ready
    /\ ~waker'
    /\ accept_pc' = IF waker THEN "runnable" ELSE accept_pc

\* poll hands over the first entry in this step.
Polled ==
    /\ poll_accept
    /\ ready # << >>
    /\ ready' = Tail(ready)
    /\ call'.result = "Ready" /\ call'.entry = Head(ready)
    /\ waker' = waker

\* poll finds nothing in this step and parks the waker of its caller.
Parked ==
    /\ poll_accept
    /\ ready = << >>
    /\ ready' = ready
    /\ call'.result = "Pending"
    /\ waker' /\ accept_pc' = "parked"

\* C24 (accept-side polling): ready changes only by a push that appends one
\* entry and by a poll that hands over the first one, so that poll_accept
\* returns the entries, Ok and Err alike, in the order of their pushes; a poll
\* of an empty ready returns Pending and parks the waker of the caller in the
\* one slot there is; every push takes the parked waker and wakes it, so that
\* no waker stays parked while ready has an entry.
C24_AcceptPolling ==
    /\ [][poll_accept => (Polled \/ Parked)]_vars
    /\ [][ready' # ready => (Pushed \/ Polled)]_vars
    /\ [](~(waker /\ ready # << >>))
    /\ [](waker => accept_pc = "parked")

\* poll_accept handed over the error of a handshake that timed out, pushed
\* before the control block that now heads ready.
C24_Witness ==
    /\ call.op = "poll_accept" /\ call.result = "Ready"
    /\ ~call.entry.ok
    /\ ready # << >> /\ Head(ready).ok
    /\ ~waker

\* The window scales and sizes that the control block of a handshake has to
\* carry, from the InflightAccept of its SYN.
ScaledWindows(cb, accept) ==
    IF accept.remote_window_scale.some
    THEN /\ cb.local_window_scale = ConfigWindowScale
         /\ cb.remote_window_scale = accept.remote_window_scale.val
         /\ cb.remote_window_size = accept.header_window_size * 2^accept.remote_window_scale.val
         /\ cb.local_window_size = ConfigReceiveWindowSize * 2^ConfigWindowScale
    ELSE /\ cb.local_window_scale = 0
         /\ cb.remote_window_scale = 0
         /\ cb.remote_window_size = accept.header_window_size
         /\ cb.local_window_size = ConfigReceiveWindowSize

\* C25 (window scaling on the final ACK): when the SYN carried a window scale
\* w the control block gets the configured window scale as its local scale, w
\* as its remote scale, header_window_size * 2^w as its remote window size and
\* receive_window_size * 2^window_scale as its local window size; without the
\* option both scales are 0 and both sizes unscaled; and the computation does
\* not panic, whatever the window size and the scale of the SYN.
C25_WindowScaling ==
    /\ [](panic # "Window size overflow")
    /\ [][\A remote \in Remotes : \A header \in Headers(remote) :
            (IsFinalAck(remote, header) /\ receive(remote, header) /\ Len(ready') = Len(ready) + 1)
                => ScaledWindows(ready'[Len(ready')], inflight[remote])]_vars

\* The retry coroutine of task t returns in this step and pushes ETIMEDOUT.
PushesTimeout(t) == tasks[t].status = "alive" /\ tasks'[t].status = "completed"

\* C26 (ARP failure in the retry coroutine): an iteration whose ARP query
\* fails transmits no SYN+ACK and goes to sleep before the next attempt, and
\* ETIMEDOUT is pushed only at the end of a sleep of handshake_timeout, so that
\* ARP failures alone do not bring the timeout forward.
C26_ArpFailureSleeps ==
    /\ [][\A t \in TaskIds :
            BackgroundArpFailed(t) =>
                /\ call'.segment = NoSegment
                /\ tasks'[t].status = "alive" /\ tasks'[t].pc = "wait"]_vars
    /\ [][\A t \in TaskIds : PushesTimeout(t) => tasks[t].pc = "wait"]_vars

\* The segment that task t transmits in this step is the SYN+ACK of the
\* connection that inflight holds for its remote.
TransmitsSynAck(t) ==
    LET remote  == tasks[t].remote
        segment == call'.segment
    IN  /\ remote \in DOMAIN inflight
        /\ inflight[remote].handle = t
        /\ segment.remote = remote
        /\ segment.syn /\ segment.ack
        /\ segment.seq_num = inflight[remote].local_isn
        /\ segment.ack_num = (inflight[remote].remote_isn + 1) % SeqModulus
        /\ segment.options.mss.some /\ segment.options.window_scale.some

\* C27 (SYN+ACK): every segment that a background coroutine transmits has SYN
\* and ACK set, the local_isn of the InflightAccept of its connection as seq,
\* remote_isn + 1 (modulo the size of the sequence space) as ack, and an MSS
\* and a WindowScale option; a coroutine transmits once in an iteration, and
\* its iterations are counted up to handshake_retries, so that it transmits at
\* most handshake_retries segments; once the final ACK has been processed the
\* connection is out of inflight and its coroutine is not alive, so that it
\* transmits nothing more.
C27_SynAck ==
    /\ [][\A t \in TaskIds :
            BackgroundTransmit(t) =>
                /\ TransmitsSynAck(t)
                /\ tasks[t].iter < HandshakeRetries
                /\ tasks'[t].pc = "wait" /\ tasks'[t].iter = tasks[t].iter]_vars
    /\ [][\A t \in TaskIds :
            (tasks[t].pc = "wait" /\ tasks'[t] # tasks[t]) =>
                \/ tasks'[t].status # "alive"
                \/ tasks'[t].pc = "arp" /\ tasks'[t].iter = tasks[t].iter + 1]_vars
    /\ [][\A remote \in Remotes : \A header \in Headers(remote) :
            (IsFinalAck(remote, header) /\ receive(remote, header) /\ panic' = "none") =>
                /\ remote \notin DOMAIN inflight'
                /\ tasks'[inflight[remote].handle].status # "alive"]_vars

\* The coroutine of the remote whose sequence numbers are the largest has
\* transmitted its last SYN+ACK, whose ack wrapped to zero.
C27_Witness ==
    /\ call.op = "background" /\ call.result = "transmit"
    /\ call.segment.remote = 1 /\ call.segment.ack_num = 0
    /\ \E t \in TaskIds :
          /\ tasks[t].status = "alive" /\ tasks[t].remote = 1
          /\ tasks[t].pc = "wait" /\ tasks[t].iter = HandshakeRetries - 1

-----------------------------------------------------------------------------
\* More properties of the memory queue.

\* The try_pop of this turn of do_pop reports the end of file.
TryPopEof(t) == do_pop("PopOnly", t) /\ qcall'.op = "try_pop" /\ qcall'.eof /\ qcall'.result = "Ok"

\* C28 (end of file in do_pop): whenever try_pop reports eof = true in a turn
\* of do_pop, with a byte or without one, the do_pop completes in that turn
\* with eof = true and with the data bytes it has read so far as its buffer;
\* it neither returns eof = false nor yields.
C28_PopEof ==
    [][\A t \in OpIds :
        TryPopEof(t) =>
            /\ ops'["PopOnly"][t].status = "completed"
            /\ ops'["PopOnly"][t].result = "Ok"
            /\ ops'["PopOnly"][t].eof
            /\ ops'["PopOnly"][t].buf = ops["PopOnly"][t].buf]_vars

\* A do_pop that has returned Ok.
PopSucceeded(op) == op.kind = "pop" /\ op.status = "completed" /\ op.result = "Ok"

\* C29 (result of do_pop): the buffer of a do_pop grows by exactly the data
\* bytes that its turns take from the ring; a do_pop that completes with Ok
\* returns that buffer, which is no longer than the size asked for and is
\* empty only together with eof = true; a turn that finds the ring empty
\* yields when no byte has been read, and completes at once with the bytes
\* read and eof = false otherwise.
C29_PopResult ==
    [][\A t \in OpIds :
        do_pop("PopOnly", t) =>
            LET op  == ops["PopOnly"][t]
                new == ops'["PopOnly"][t]
            IN  /\ IF ring # << >> /\ ~Head(ring).eof
                   THEN /\ ring' = Tail(ring)
                        /\ new.buf = Append(op.buf, Head(ring).byte)
                        /\ new.status = "running" \/ PopSucceeded(new)
                   ELSE PopSucceeded(new) => new.buf = op.buf
                /\ PopSucceeded(new) =>
                        /\ Len(new.buf) <= op.size
                        /\ Len(new.buf) = 0 => new.eof
                /\ (ring = << >> /\ op.buf = << >>) => (new.status = "yielded" /\ ring' = ring)
                /\ (ring = << >> /\ op.buf # << >>) =>
                        (PopSucceeded(new) /\ ~new.eof /\ new.buf = op.buf /\ ring' = ring)]_vars

\* A do_pop that asked for two bytes returned one: the ring ran empty.
C29_Witness ==
    /\ qcall.op = "try_pop" /\ qcall.byte = None /\ ~qcall.eof
    /\ \E t \in OpIds :
          /\ PopSucceeded(ops["PopOnly"][t])
          /\ ~ops["PopOnly"][t].eof
          /\ Len(ops["PopOnly"][t].buf) = 1
          /\ hist.received = ops["PopOnly"][t].buf

\* A turn of do_push on the push end: it writes the next byte of the buffer
\* when the ring has room, yields at the same byte when the ring is full, and
\* returns Ok when no byte is left.
PushTurn(t) ==
    LET op  == ops["PushOnly"][t]
        new == ops'["PushOnly"][t]
    IN  IF op.index < Len(op.buf) /\ ~ring_is_full
        THEN /\ ring' = Append(ring, Data(op.buf[op.index + 1]))
             /\ new = [op EXCEPT !.index = op.index + 1]
        ELSE /\ ring' = ring
             /\ IF op.index < Len(op.buf)
                THEN new = [op EXCEPT !.status = "yielded"]
                ELSE /\ op.index = Len(op.buf)
                     /\ new.status = "completed" /\ new.result = "Ok"

\* The scheduler resumes a do_push that was suspended in yield_once: it goes
\* on with the byte at which it yielded, or returns the error of the wake
\* with a proper prefix of its buffer written and left in the ring.
PushResumed(t) ==
    LET op  == ops["PushOnly"][t]
        new == ops'["PushOnly"][t]
    IN  /\ ring' = ring
        /\ op.index < Len(op.buf)
        /\ IF op.wake = "none"
           THEN new = [op EXCEPT !.status = "running"]
           ELSE new.status = "completed" /\ new.result = op.wake

\* C30 (do_push): a do_push writes the bytes of its buffer to the ring one
\* after the other, each once and in order, and returns Ok only when all of
\* them are written; it yields only when the ring is full and tries the same
\* byte again when it is resumed; a do_push that returns the error of a
\* cancellation does so when it is resumed from a yield, with a proper prefix
\* of its buffer written, and the bytes of that prefix stay in the ring.
C30_PushAtomicity ==
    /\ [][\A t \in OpIds : do_push("PushOnly", t) => PushTurn(t)]_vars
    /\ [][\A t \in OpIds :
            (/\ poll("PushOnly", t)
             /\ ops["PushOnly"][t].kind = "push"
             /\ ops["PushOnly"][t].status = "yielded") => PushResumed(t)]_vars
    /\ [](\A t \in OpIds :
            (ops["PushOnly"][t].kind = "push" /\ ops["PushOnly"][t].status = "completed")
                => ops["PushOnly"][t].result \in {"Ok", "ECANCELED"})

\* A push of two bytes was cancelled after its first byte: the consumer has
\* that byte, and no push has completed with Ok.
C30_Witness ==
    /\ qcall.op = "yield_once" /\ qcall.result = "ECANCELED"
    /\ \E t \in OpIds :
          /\ ops["PushOnly"][t].kind = "push"
          /\ ops["PushOnly"][t].status = "completed"
          /\ ops["PushOnly"][t].result = "ECANCELED"
    /\ hist.received = <<1>>
    /\ hist.sent = << >>

-----------------------------------------------------------------------------
\* Properties of the memory runtime.

\* into_sgarray or alloc_sgarray returns a scatter-gather array in this step.
ProducesSga ==
    \/ \E b \in BufIds : into_sgarray(b)
    \/ \E size \in Sizes : alloc_sgarray(size) /\ mcall'.ret = 0

\* C21 (one segment): free_sgarray and clone_sgarray return EINVAL for every
\* scatter-gather array whose number of segments is not 1, and then no heap
\* buffer is reclaimed, read or copied; every scatter-gather array that
\* into_sgarray or alloc_sgarray returns has one segment, and the length of
\* that segment is the length of its buffer.
C21_OneSegment ==
    /\ [][\A sga \in Passed :
            (sga.sga_numsegs # 1 /\ (free_sgarray(sga) \/ clone_sgarray(sga))) =>
                /\ mcall'.ret = EINVAL
                /\ mcall'.reclaimed = {} /\ mcall'.read = {} /\ mcall'.dbuf = 0
                /\ UNCHANGED <<heap, sgas>>]_vars
    /\ [][ProducesSga =>
            LET sga == mcall'.sga IN
            /\ sga.sga_numsegs = 1
            /\ Len(sga.sga_segs) = 1
            /\ heap'[sga.sga_segs[1].sgaseg_buf].status = "raw"
            /\ sga.sga_segs[1].sgaseg_len = heap'[sga.sga_segs[1].sgaseg_buf].len]_vars

\* A free_sgarray was refused with EINVAL while the application holds the
\* scatter-gather array of a buffer of the greatest length, and that buffer is
\* still handed out.
C21_Witness ==
    /\ mcall.op = "free_sgarray" /\ mcall.ret = EINVAL
    /\ \E sga \in sgas :
          /\ sga.sga_segs[1].sgaseg_len = BufferLenMax
          /\ heap[sga.sga_segs[1].sgaseg_buf] = [status |-> "raw", len |-> BufferLenMax]

-----------------------------------------------------------------------------
\* Properties of the asynchronous close of the memory queue.

\* One poll of the coroutine of do_async_close: with fewer than
\* MAX_RETRIES_PUSH_EOF failed attempts behind it, it calls try_close, returns
\* Ok when the marker is written and yields, one failure more, when it is not;
\* with MAX_RETRIES_PUSH_EOF failed attempts behind it, it returns EIO and
\* calls nothing.
AsyncCloseTurn(side) ==
    LET c == closer[side]
        n == closer'[side]
    IN  IF c.retries < MAX_RETRIES_PUSH_EOF
        THEN IF ring_is_full
             THEN /\ n = [c EXCEPT !.status = "yielded", !.retries = c.retries + 1]
                  /\ ring' = ring
             ELSE /\ n = [c EXCEPT !.status = "completed", !.result = "Ok"]
                  /\ ring' = Append(ring, Eof)
        ELSE /\ c.retries = MAX_RETRIES_PUSH_EOF
             /\ n = [c EXCEPT !.status = "completed", !.result = "EIO"]
             /\ ring' = ring

AsyncCloseOutcome(side, spawned) ==
    IF spawned
    THEN /\ state'[side] = [current |-> "Closing", prepared |-> "none"]
         /\ closer'[side].status = "inserted"
         /\ closer'[side].task_id = CloserTaskId
         /\ closer'[side].qt = closer'[side].task_id
         /\ qcall'.result # "insert failed"
    ELSE /\ state'[side] = [current |-> state[side].current, prepared |-> "none"]
         /\ closer' = closer
         /\ qcall' = [NoQCall EXCEPT !.op = "async_close", !.side = side,
                                     !.result = "insert failed"]

\* C32: when async_close cannot spawn the close coroutine, the prepared
\* transition is aborted, the endpoint is in the state of before the call, the
\* pending operations are unchanged and the spawn error is returned; when the
\* coroutine is spawned, the transition is committed and the token is the id of
\* the spawned task. The close coroutine is never one of the pending
\* operations.
C32_AsyncCloseRollback ==
    /\ [][\A side \in Sides : \A spawned \in BOOLEAN :
             async_close(side, spawned) /\ can_prepare_close(side)
                => /\ AsyncCloseOutcome(side, spawned)
                   /\ pending_ops' = pending_ops
                   /\ ops' = ops
                   /\ \A other \in Sides \ {side} : state'[other] = state[other]]_vars
    /\ [](\A side \in Sides : CloserTaskId \notin pending_ops[side])

\* async_close failed to spawn its coroutine on an open end with a pending
\* operation.
C32_Witness ==
    \E side \in Sides :
        /\ qcall.op = "async_close" /\ qcall.side = side /\ qcall.result = "insert failed"
        /\ state[side] = [current |-> "Opened", prepared |-> "none"]
        /\ closer[side] = NoCloser
        /\ pending_ops[side] # {}

-----------------------------------------------------------------------------
\* Properties of the passive-open socket: timed-out handshakes.

\* This step pushes the control block of remote onto ready.
PushesOk(remote) ==
    /\ Len(ready') = Len(ready) + 1
    /\ ready'[Len(ready')].ok
    /\ ready'[Len(ready')].remote = remote

\* C34: at most one entry is pushed onto ready for an admitted SYN: a control
\* block is pushed only for a handshake whose retry task has not pushed
\* ETIMEDOUT, and ETIMEDOUT only for a handshake that is still in inflight, so
\* an ACK that comes after the timeout establishes no connection.
C34_OneEntryPerSyn ==
    /\ [][\A remote \in DOMAIN inflight :
            PushesOk(remote) => tasks[inflight[remote].handle].status = "alive"]_vars
    /\ [][\A t \in TaskIds :
            PushesTimeout(t) => \E remote \in DOMAIN inflight : inflight[remote].handle = t]_vars

\* The remotes of inflight whose retry task has pushed ETIMEDOUT and ended.
TimedOutRemotes == {remote \in DOMAIN inflight : tasks[inflight[remote].handle].status = "completed"}

\* The ETIMEDOUT entries that poll_accept has not consumed yet.
TimeoutEntries == {i \in 1..Len(ready) : ~ready[i].ok /\ ready[i].errno = "ETIMEDOUT"}

\* The handshakes in progress.
LiveRemotes == {remote \in DOMAIN inflight : tasks[inflight[remote].handle].status = "alive"}

\* C35: a timed-out handshake gives its place in the backlog back: once
\* poll_accept has consumed the ETIMEDOUT entry the remote is no longer in
\* inflight, and a valid SYN is then refused with ECONNREFUSED only when the
\* handshakes in progress and the ready entries fill the backlog.
C35_BacklogRestored ==
    /\ [](Cardinality(TimedOutRemotes) <= Cardinality(TimeoutEntries))
    /\ [][\A remote \in Remotes : \A header \in Headers(remote) :
            (receive(remote, header) /\ call'.result = "ECONNREFUSED" /\ TimeoutEntries = {})
                => Cardinality(LiveRemotes) + Len(ready) >= max_backlog]_vars

\* The errors that receive returns.
ReceiveErrors == {"EBADMSG", "ECONNREFUSED", "EAGAIN"}

\* C36: a receive that returns an error (EBADMSG, ECONNREFUSED, or the failure
\* to insert the background coroutine) leaves inflight, ready, endpoints and
\* the background tasks as they were: a failed insertion adds no inflight
\* entry, and a rejected ACK neither removes the entry nor deschedules its
\* retry task.
C36_ReceiveErrorFrame ==
    [][\A remote \in Remotes : \A header \in Headers(remote) :
          (receive(remote, header) /\ call'.result \in ReceiveErrors)
              => UNCHANGED <<inflight, ready, endpoints, tasks, waker>>]_vars

\* An ACK with a wrong acknowledgement number was rejected while the
\* handshake of its remote is in progress and another entry waits in ready.
C36_Witness ==
    /\ call.op = "receive" /\ call.result = "EBADMSG"
    /\ call.remote \in LiveRemotes
    /\ ready # << >>

-----------------------------------------------------------------------------
\* Properties of the memory queue: concurrent pushes.

\* The bytes that the running coroutine of do_pop has taken from the ring and
\* not yet returned.
PoppedNotDelivered ==
    IF running["PopOnly"] \in OpIds /\ ops["PopOnly"][running["PopOnly"]].kind = "pop"
    THEN ops["PopOnly"][running["PopOnly"]].buf
    ELSE << >>

\* The byte stream as the consumer sees it: what its pops returned, what a pop
\* holds, and what waits in the ring.
ConsumerStream ==
    hist.received \o PoppedNotDelivered \o [i \in 1..Len(ring) |-> ring[i].byte]

\* The bytes of a run are numbered in the order of submission, so the stream
\* is in the order of submission when its i-th byte is byte i.
InSubmissionOrder(stream) == \A i \in 1..Len(stream) : stream[i] = i

\* C37: two pushes that both yield for a full ring do not interleave: once
\* both have yielded, every step leaves the byte stream of the consumer in the
\* order of submission, all bytes of the earlier buffer before those of the
\* later one.
C37_PushesDoNotInterleave ==
    [][(hist.contended /\ InSubmissionOrder(ConsumerStream))
          => InSubmissionOrder(ConsumerStream')]_vars

-----------------------------------------------------------------------------
\* Properties of the memory queue: the synchronous close and the pending
\* operations.

\* C38: a close that returns an error, because prepare_close refused or the
\* end-of-file marker could not be written, leaves the endpoint as it was: the
\* same state with no transition left prepared, no operation cancelled and the
\* same pending operations.
C38_FailedCloseFrame ==
    [][\A side \in Sides :
          (close(side) /\ qcall'.op = "close" /\ qcall'.result # "none")
              => /\ state' = state
                 /\ ops' = ops
                 /\ pending_ops' = pending_ops
                 /\ ring' = ring]_vars

\* The operations that push and pop registered, less those whose result the
\* application has taken.
Registered(side) == {t \in OpIds : ops[side][t].status # "free"}

\* C39: an operation that push or pop registered stays in pending_ops until
\* remove_pending_op removes it when its result is taken, so remove_pending_op
\* finds its entry and the expect "operation should be registered" never
\* fails, also for an operation that a close cancelled.
C39_PendingOpsBookkeeping ==
    /\ qcall.result # "operation should be registered"
    /\ \A side \in Sides : Registered(side) \subseteq pending_ops[side]

-----------------------------------------------------------------------------
\* Properties of the Catcollar libOS: the address check of bind.

\* C40: bind returns EADDRINUSE only when a live queue was bound to the
\* address; a queue that was never bound, such as the queue of an accepted
\* connection with the address of its peer, makes no bind fail.
C40_AddrInUseOnlyIfBound ==
    [][\A qd \in QDescs : \A local \in SocketAddrs : \A os_ok \in BOOLEAN :
          (cc_bind(qd, local, os_ok) /\ ccall'.ret = EADDRINUSE)
              => \E q \in QDescs :
                     qtable[q].live /\ qtable[q].bound /\ qtable[q].addr = Some(local)]_vars

-----------------------------------------------------------------------------
\* Properties of the pop future.

\* C33: a poll of a request that completed with a size of zero or more is
\* Ready(Ok) with the first size bytes of the receive buffer, also for a size
\* beyond the buffer, and never panics; a negative size is Ready(Err) with the
\* errno -size; a peek that fails is Ready(Err) with its error; a request in
\* progress gives Pending and a call of the waker.
C33_PopFutureOutcome ==
    /\ popfut.panic = "none"
    /\ popfut.out.tag \in {"Ok", "Err"} =>
          CASE popfut.request = "completed" /\ popfut.size >= 0 ->
                  /\ popfut.out.tag = "Ok"
                  /\ Len(popfut.out.buf) = popfut.size
                  /\ popfut.out.buf = SubSeq(popfut.buf, 1, popfut.size)
            [] popfut.request = "completed" /\ popfut.size < 0 ->
                  popfut.out = ReadyErr(-popfut.size)
            [] popfut.request = "failed" ->
                  popfut.out = ReadyErr(popfut.errno)
    /\ popfut.out.tag = "Pending" => popfut.woken

=============================================================================
